---- MODULE Spec2Model ----
(***************************************************************************)
(* Job-portal backend: the credential store, the session tokens, the       *)
(* admin operations and the job postings, as a state machine over the      *)
(* document-store collections.  Every handler is one action; the handlers  *)
(* that check a collection and then insert into it are split at the point  *)
(* where they await the store between the check and the insert.            *)
(*                                                                         *)
(* Not modelled: the slowapi rate limiter in front of register and login   *)
(* (a 429 before the handler runs), and store outages (the 503 branches).  *)
(***************************************************************************)
EXTENDS Integers, FiniteSets, Sequences, TLC

VARIABLES
    users,        \* the users collection: a set of user documents
    jobs,         \* the jobs collection: a set of job documents
    tokens,       \* every access token signed by this server so far
    now,          \* the clock, in minutes
    nextUserId,   \* the next _id the store generates for a user document
    nextJobId,    \* the next _id the store generates for a job document
    applications, \* the applications collection: a set of application documents
    nextAppId,    \* the next _id the store generates for an application document
    inflight,     \* the submissions that passed their checks and await their insert
    last,         \* the request handled last and the response it got
    companies,    \* the companies collection
    verifications,\* the company_verifications collection
    saved_jobs,   \* the saved_jobs collection
    profiles,     \* the profiles collection
    reviews,      \* the reviews collection
    nextDocId,    \* the next _id the store generates in those collections and in job_alerts
    profile_data, \* the profile document the completion score is computed of
    completion,   \* the score calculate_profile_completion returned for it
    job_alerts,   \* the job_alerts collection
    listing       \* the jobs the alert matcher or the job search answered last

appVars == <<applications, nextAppId, inflight>>
extVars == <<companies, verifications, saved_jobs, profiles, reviews, nextDocId,
             profile_data, completion, job_alerts, listing>>
vars == <<users, jobs, tokens, now, nextUserId, nextJobId, appVars, last, extVars>>

----------------------------------------------------------------------------
(* Bounds of the model. *)

MaxUsers == 3       \* user documents ever inserted (the bootstrap admin included)
MaxJobs == 2        \* job documents ever inserted
MaxTokens == 2      \* distinct tokens ever signed
MaxApps == 2        \* application documents ever inserted
MaxInflight == 2    \* submissions in flight at once
MaxTime == 45       \* the clock stops here
MaxEntries == 1     \* entries in each of a profile's experience, education and projects
MaxDocs == 2        \* documents ever inserted into each of saved_jobs, profiles and reviews
MaxViews == 3       \* views counted on a profile
MaxDays == 8        \* the clock of the alert matcher stops after this many days

(* Program constants. *)

ACCESS_TOKEN_EXPIRE_MINUTES == 30
BCRYPT_MAX_BYTES == 72
MIN_PASSWORD_LEN == 8
MOBILE_DIGITS == 10
MIN_TLD_LEN == 2
REQUIRED_WEIGHT == 2            \* points of a filled required profile field
OPTIONAL_WEIGHT == 1            \* points of a filled optional profile field
ENTRY_WEIGHT == 2               \* points of an experience, education or project entry
SKILLS_PER_POINT == 2           \* a skill earns half a point
SKILLS_MAX_POINTS == 10         \* the most the skills section earns
ASSUMED_PROJECTS_POINTS == 4    \* points counted for the projects of a profile without any
RATING_MIN == 1
RATING_MAX == 5
ALERT_WINDOW_DAYS == 7
MINUTES_PER_DAY == 1440

TickMinutes == ACCESS_TOKEN_EXPIRE_MINUTES \div 2

----------------------------------------------------------------------------
(* Values. *)

Roles == {"job_seeker", "employer", "admin"}

AdminEmail == "admin@admin.com"
AdminPassword == "Admin@123"

\* The e-mail addresses requests carry, and what the pattern of
\* validate_email sees in each: the part before @, the part between @ and
\* the last dot, and the number of letters after the last dot.
Emails == {"a@x.io", "b@x.io", "bad@x"}

EmailShape(e) ==
    CASE e = "a@x.io"   -> [local |-> "a", domain |-> "x", tld |-> 2]
      [] e = "b@x.io"   -> [local |-> "b", domain |-> "x", tld |-> 2]
      [] e = AdminEmail -> [local |-> "admin", domain |-> "admin", tld |-> 3]
      [] e = "bad@x"    -> [local |-> "bad", domain |-> "", tld |-> 0]
      [] OTHER          -> [local |-> "", domain |-> "", tld |-> 0]

\* The passwords requests carry, and what validate_password sees in each.
Passwords == {"Passw0rd!", AdminPassword, "weak"}

PasswordShape(p) ==
    CASE p = "Passw0rd!"   -> [len |-> 9, upper |-> TRUE, digit |-> TRUE, special |-> TRUE]
      [] p = AdminPassword -> [len |-> 9, upper |-> TRUE, digit |-> TRUE, special |-> TRUE]
      [] p = "weak"        -> [len |-> 4, upper |-> FALSE, digit |-> FALSE, special |-> FALSE]
      [] OTHER             -> [len |-> 0, upper |-> FALSE, digit |-> FALSE, special |-> FALSE]

\* The mobile numbers requests carry: the number of characters and whether
\* all of them are digits.
Mobiles == {"9876543210", ""}

MobileShape(m) ==
    CASE m = "9876543210" -> [len |-> 10, digits |-> TRUE]
      [] m = "0000000000" -> [len |-> 10, digits |-> TRUE]
      [] OTHER            -> [len |-> 0, digits |-> TRUE]

NoUser == [id |-> 0, email |-> "", role |-> ""]
NoToken == [sub |-> "", role |-> "", exp |-> 0]
NoBody == [none |-> TRUE]
Idle == [op |-> "idle"]

----------------------------------------------------------------------------
(* app/utils/auth.py and the validators of app/routers/auth.py *)

validate_email(email) ==
    LET s == EmailShape(email)
    IN  s.local # "" /\ s.domain # "" /\ s.tld >= MIN_TLD_LEN

validate_password(password) ==
    LET s == PasswordShape(password)
    IN  /\ ~(s.len < MIN_PASSWORD_LEN)
        /\ s.upper
        /\ s.digit
        /\ s.special

validate_mobile(mobile) ==
    LET s == MobileShape(mobile)
    IN  s.len = MOBILE_DIGITS /\ s.digits

\* bcrypt of the password: a value that is not the password and that only
\* the same password verifies against.  No password of the model is longer
\* than 72 bytes, so the truncation leaves each as it is.
get_password_hash(password) == [bcrypt |-> password]

verify_password(plain_password, hashed_password) ==
    hashed_password = [bcrypt |-> plain_password]

create_access_token(sub, user_role) ==
    [sub |-> sub, role |-> user_role, exp |-> now + ACCESS_TOKEN_EXPIRE_MINUTES]

\* Mutant for C5: the decode without the check of the exp claim.
jwt_decode_no_expiry(token) == token \in tokens

\* jwt.decode: the signature is this server's and the exp claim is not in
\* the past.
jwt_decode_ok(token) == token \in tokens /\ ~(token.exp < now)

FindByEmail(coll, email) == {u \in coll : u.email = email}
FindById(coll, id) == {d \in coll : d.id = id}

\* Mutant for C28: a verification that refuses the tokens of
\* deactivated accounts.
get_current_user_active_only(token) ==
    IF ~jwt_decode_ok(token) THEN NoUser
    ELSE LET found == {u \in FindByEmail(users, token.sub) : u.is_active}
         IN  IF found = {} THEN NoUser
             ELSE LET user == CHOOSE u \in found : TRUE
                  IN  [id |-> user.id, email |-> user.email, role |-> token.role]

\* get_current_user: the identity of a token, or NoUser where the code
\* raises.  The id and the email come from the user document found by the
\* token's email, the role from the token.
get_current_user(token) ==
    IF ~jwt_decode_ok(token) THEN NoUser
    ELSE LET found == FindByEmail(users, token.sub)
         IN  IF found = {} THEN NoUser
             ELSE LET user == CHOOSE u \in found : TRUE
                  IN  [id |-> user.id, email |-> user.email, role |-> token.role]

\* get_current_user_role: the role stored in the user document of that id
\* ("" where the code raises).
get_current_user_role(user_id) ==
    LET found == FindById(users, user_id)
    IN  IF found = {} THEN "" ELSE (CHOOSE u \in found : TRUE).role

----------------------------------------------------------------------------
(* The store. *)

\* Mutant for C1: the users collection without its unique index.
users_insert_no_index(coll, doc) == TRUE

\* insert_one into the users collection, which has a unique index on
\* email: TRUE when the store accepts the document.
users_insert_ok(coll, doc) == FindByEmail(coll, doc.email) = {}

\* update_one with {"$set": update}: the named fields take the new values,
\* the others keep theirs.
set_fields(doc, update) ==
    [f \in DOMAIN doc \cup DOMAIN update |->
        IF f \in DOMAIN update THEN update[f] ELSE doc[f]]

\* The request handled last (the operation, the identifier in its path and
\* its body), the time it was handled at, the identity get_current_user
\* gave it, and the response: the status, the detail of an error, the token
\* of a success.
Request(op, target, body) ==
    [op |-> op, target |-> target, body |-> body]

Respond(req, caller, status, detail, issued) ==
    [op |-> req.op, target |-> req.target, body |-> req.body, at |-> now,
     caller |-> caller, status |-> status, detail |-> detail, issued |-> issued]

\* A handler that answers and writes nothing.
AnswerOnly(response) ==
    /\ last' = response
    /\ UNCHANGED <<users, jobs, tokens, now, nextUserId, nextJobId, appVars, extVars>>

----------------------------------------------------------------------------
(* calculate_profile_completion of app/routers/profile.py *)

\* A scalar field of a profile is a string; "" stands for an empty string
\* and for None alike, which the function treats alike.  Blank strings are
\* what str.strip empties.
Blank == {" "}
strip(text) == IF text \in Blank THEN "" ELSE text

\* "profile_data.get(field) and str(profile_data.get(field)).strip()"
field_filled(value) == value # "" /\ strip(value) # ""

required_fields == {"fullName", "email"}
optional_fields == {"phone", "address", "headline", "summary", "profilePicture"}

EmptyProfile ==
    [fullName |-> "", email |-> "", phone |-> "", address |-> "", headline |-> "",
     summary |-> "", profilePicture |-> "",
     experience |-> <<>>, education |-> <<>>, skills |-> <<>>, projects |-> <<>>]

\* The points below are in halves of a point (every weight times
\* SKILLS_PER_POINT), since a skill earns half a point.
filled_points(profile, fields, weight) ==
    [earned |-> SKILLS_PER_POINT * weight * Cardinality({f \in fields : field_filled(profile[f])}),
     total  |-> SKILLS_PER_POINT * weight * Cardinality(fields)]

\* A section of entries: an entry with both of its two named fields earns
\* ENTRY_WEIGHT, and every entry counts ENTRY_WEIGHT.
entry_points(entries, first, second) ==
    [earned |-> SKILLS_PER_POINT * ENTRY_WEIGHT *
                Cardinality({i \in DOMAIN entries :
                                entries[i][first] # "" /\ entries[i][second] # ""}),
     total  |-> SKILLS_PER_POINT * ENTRY_WEIGHT * Len(entries)]

skills_points(skills) ==
    IF Len(skills) = 0 THEN [earned |-> 0, total |-> 0]
    ELSE [earned |-> IF Len(skills) < SKILLS_PER_POINT * SKILLS_MAX_POINTS
                     THEN Len(skills) ELSE SKILLS_PER_POINT * SKILLS_MAX_POINTS,
          total  |-> SKILLS_PER_POINT * SKILLS_MAX_POINTS]

\* Mutant for C19: the projects a profile without projects is assumed to
\* have, counted as earned.
projects_points_assumed_earned(projects) ==
    IF Len(projects) # 0 THEN entry_points(projects, "title", "description")
    ELSE [earned |-> SKILLS_PER_POINT * ASSUMED_PROJECTS_POINTS,
          total |-> SKILLS_PER_POINT * ASSUMED_PROJECTS_POINTS]

projects_points(projects) ==
    IF Len(projects) # 0 THEN entry_points(projects, "title", "description")
    ELSE [earned |-> 0, total |-> SKILLS_PER_POINT * ASSUMED_PROJECTS_POINTS]

\* The whole percentages p for which the double arithmetic of
\* int((p / 100) * 100) lands just below p and truncates to p - 1.
TruncatedBelow == {29, 57, 58}

\* int((earned_points / total_points) * 100) in double arithmetic.
float_percentage(earned, total) ==
    LET exact == (100 * earned) \div total
    IN  IF (100 * earned) % total = 0 /\ exact \in TruncatedBelow THEN exact - 1 ELSE exact

calculate_profile_completion(profile) ==
    LET sections == <<filled_points(profile, required_fields, REQUIRED_WEIGHT),
                      filled_points(profile, optional_fields, OPTIONAL_WEIGHT),
                      entry_points(profile.experience, "title", "company"),
                      entry_points(profile.education, "school", "degree"),
                      skills_points(profile.skills),
                      projects_points(profile.projects)>>
        earned_points == sections[1].earned + sections[2].earned + sections[3].earned
                         + sections[4].earned + sections[5].earned + sections[6].earned
        total_points == sections[1].total + sections[2].total + sections[3].total
                        + sections[4].total + sections[5].total + sections[6].total
        completion_percentage == float_percentage(earned_points, total_points)
    IN  IF total_points = 0 THEN 0
        ELSE IF completion_percentage < 100 THEN completion_percentage ELSE 100

----------------------------------------------------------------------------
(* create_admin_user.py, run at startup after create_indexes *)

create_admin_user(coll, id) ==
    IF FindByEmail(coll, AdminEmail) # {} THEN coll
    ELSE LET password_hash == get_password_hash(AdminPassword)
             admin_user == [id |-> id,
                            email |-> AdminEmail,
                            password |-> AdminPassword,
                            hashed_password |-> password_hash,
                            mobile |-> "0000000000",
                            role |-> "admin",
                            is_verified |-> TRUE,
                            is_active |-> TRUE,
                            created_at |-> 0]    \* the clock at startup
         IN  IF users_insert_ok(coll, admin_user) THEN coll \cup {admin_user} ELSE coll

\* The store after startup: the bootstrap admin and nothing else.
InitStore ==
    /\ users = create_admin_user({}, 1)
    /\ nextUserId = 2
    /\ jobs = {}
    /\ nextJobId = 1
    /\ tokens = {}
    /\ now = 0
    /\ applications = {}
    /\ nextAppId = 1
    /\ inflight = [s \in 1..MaxInflight |-> Idle]
    /\ last = Respond(Request("startup", 0, NoBody), NoUser, 200, "", NoToken)
    /\ companies = {}
    /\ verifications = {}
    /\ saved_jobs = {}
    /\ profiles = {}
    /\ reviews = {}
    /\ nextDocId = 1
    /\ job_alerts = {}
    /\ listing = {}

Init ==
    /\ InitStore
    /\ profile_data = EmptyProfile
    /\ completion = calculate_profile_completion(EmptyProfile)

----------------------------------------------------------------------------
(* app/routers/auth.py *)

\* What register answers without touching the store: the validation
\* failures, in the order the handler checks them ("" when all pass).
register_rejects(user) ==
    IF ~validate_email(user.email) THEN "Invalid email format"
    ELSE IF PasswordShape(user.password).len > BCRYPT_MAX_BYTES
        THEN "Password cannot be longer than 72 characters"
    ELSE IF ~validate_password(user.password) THEN "Password too weak"
    ELSE IF ~validate_mobile(user.mobile) THEN "Mobile number must be 10 digits"
    ELSE IF user.role \notin Roles THEN "Role must be 'job_seeker', 'employer', or 'admin'"
    ELSE ""

\* The document register inserts: the dump of the request model, password
\* field included, then the hash and the server-side flags.
register_document(user, id) ==
    set_fields([id |-> id] @@ user,
               [hashed_password |-> get_password_hash(user.password),
                is_verified |-> FALSE,
                is_active |-> TRUE,
                created_at |-> now])

register(user) ==
    LET req == Request("register", 0, user)
        why == register_rejects(user)
        user_dict == register_document(user, nextUserId)
        access_token == create_access_token(user.email, user.role)
    IN  IF why # ""
        THEN AnswerOnly(Respond(req, NoUser, 400, why, NoToken))
        ELSE IF ~users_insert_ok(users, user_dict)
        THEN AnswerOnly(Respond(req, NoUser, 400, "Email already exists", NoToken))
        ELSE /\ nextUserId <= MaxUsers
             /\ Cardinality(tokens \cup {access_token}) <= MaxTokens
             /\ users' = users \cup {user_dict}
             /\ nextUserId' = nextUserId + 1
             /\ tokens' = tokens \cup {access_token}
             /\ last' = Respond(req, [id |-> user_dict.id, email |-> user.email, role |-> user.role],
                                200, "", access_token)
             /\ UNCHANGED <<jobs, now, nextJobId, appVars, extVars>>

\* Mutant for C4: login without the check of the active flag.
login_rejects_ignoring_active(email, password, found) ==
    IF email = "" \/ password = ""
        THEN [status |-> 400, detail |-> "Email and password are required"]
    ELSE IF found = {} THEN [status |-> 401, detail |-> "Invalid credentials"]
    ELSE IF ~verify_password(password, (CHOOSE u \in found : TRUE).hashed_password)
        THEN [status |-> 401, detail |-> "Invalid credentials"]
    ELSE [status |-> 200, detail |-> ""]

\* What login answers instead of a token, in the order the handler checks
\* (status 200 when it goes on to sign one).  found holds the user document
\* of that email, if there is one.
login_rejects(email, password, found) ==
    IF email = "" \/ password = ""
        THEN [status |-> 400, detail |-> "Email and password are required"]
    ELSE IF found = {} THEN [status |-> 401, detail |-> "Invalid credentials"]
    ELSE LET user == CHOOSE u \in found : TRUE
         IN  IF ~verify_password(password, user.hashed_password)
                 THEN [status |-> 401, detail |-> "Invalid credentials"]
             ELSE IF ~user.is_active
                 THEN [status |-> 401, detail |-> "Account is deactivated"]
             ELSE [status |-> 200, detail |-> ""]

login(email, password) ==
    LET req == Request("login", 0, [email |-> email, password |-> password])
        found == FindByEmail(users, email)
        user == CHOOSE u \in found : TRUE
        access_token == create_access_token(user.email, user.role)
        why == login_rejects(email, password, found)
    IN  IF why.status # 200
        THEN AnswerOnly(Respond(req, NoUser, why.status, why.detail, NoToken))
        ELSE /\ Cardinality(tokens \cup {access_token}) <= MaxTokens
             /\ tokens' = tokens \cup {access_token}
             /\ last' = Respond(req, [id |-> user.id, email |-> user.email, role |-> user.role],
                                200, "", access_token)
             /\ UNCHANGED <<users, jobs, now, nextUserId, nextJobId, appVars, extVars>>

----------------------------------------------------------------------------
(* The clock. *)

Tick ==
    /\ now + TickMinutes <= MaxTime
    /\ now' = now + TickMinutes
    /\ UNCHANGED <<users, jobs, tokens, nextUserId, nextJobId, appVars, extVars, last>>

----------------------------------------------------------------------------

(* app/routers/admin.py *)

\* Mutant for C10: the admin gate deciding on the role claim of the token
\* in place of the role stored for the caller.
require_admin_token_role(token) ==
    LET current_user == get_current_user(token)
    IN  IF current_user = NoUser THEN 500
        ELSE IF current_user.role # "admin" THEN 403
        ELSE 200

\* require_admin: 200 when the dependency lets the request through, 403
\* when the role stored for the caller is not admin, 500 when
\* get_current_user raises (nothing catches it).
require_admin(token) ==
    LET current_user == get_current_user(token)
    IN  IF current_user = NoUser THEN 500
        ELSE IF get_current_user_role(current_user.id) # "admin" THEN 403
        ELSE 200

AdminDenied(req, token) ==
    AnswerOnly(Respond(req, get_current_user(token), require_admin(token),
                       IF require_admin(token) = 403
                       THEN "Only admin users can access this resource"
                       ELSE "Internal Server Error", NoToken))

get_all_users(token) ==
    LET req == Request("get_all_users", 0, NoBody)
    IN  IF require_admin(token) # 200 THEN AdminDenied(req, token)
        ELSE AnswerOnly(Respond(req, get_current_user(token), 200, "", NoToken))

\* The handlers below raise their 404 and 400 inside a try whose
\* "except Exception" answers 500 in their place.
get_user_by_id(token, user_id) ==
    LET req == Request("get_user_by_id", user_id, NoBody)
        cu == get_current_user(token)
    IN  IF require_admin(token) # 200 THEN AdminDenied(req, token)
        ELSE IF FindById(users, user_id) = {}
            THEN AnswerOnly(Respond(req, cu, 500, "Error fetching user", NoToken))
        ELSE AnswerOnly(Respond(req, cu, 200, "", NoToken))

update_user_status(token, user_id, is_active) ==
    LET req == Request("update_user_status", user_id, [is_active |-> is_active])
        cu == get_current_user(token)
        found == FindById(users, user_id)
        user == CHOOSE u \in found : TRUE
    IN  IF require_admin(token) # 200 THEN AdminDenied(req, token)
        ELSE IF found = {}
            THEN AnswerOnly(Respond(req, cu, 500, "Error updating user status", NoToken))
        ELSE IF user.is_active = is_active    \* modified_count == 0
            THEN AnswerOnly(Respond(req, cu, 500, "Error updating user status", NoToken))
        ELSE /\ users' = (users \ {user}) \cup {set_fields(user, [is_active |-> is_active])}
             /\ last' = Respond(req, cu, 200, "", NoToken)
             /\ UNCHANGED <<jobs, tokens, now, nextUserId, nextJobId, appVars, extVars>>

delete_user(token, user_id) ==
    LET req == Request("delete_user", user_id, NoBody)
        cu == get_current_user(token)
        found == FindById(users, user_id)
    IN  IF require_admin(token) # 200 THEN AdminDenied(req, token)
        ELSE IF found = {}
            THEN AnswerOnly(Respond(req, cu, 500, "Error deleting user", NoToken))
        ELSE /\ users' = users \ found
             /\ last' = Respond(req, cu, 200, "", NoToken)
             /\ UNCHANGED <<jobs, tokens, now, nextUserId, nextJobId, appVars, extVars>>

get_all_jobs(token) ==
    LET req == Request("get_all_jobs", 0, NoBody)
    IN  IF require_admin(token) # 200 THEN AdminDenied(req, token)
        ELSE AnswerOnly(Respond(req, get_current_user(token), 200, "", NoToken))

get_all_companies(token) ==
    LET req == Request("get_all_companies", 0, NoBody)
    IN  IF require_admin(token) # 200 THEN AdminDenied(req, token)
        ELSE AnswerOnly(Respond(req, get_current_user(token), 200, "", NoToken))

update_job_status(token, job_id, is_active) ==
    LET req == Request("update_job_status", job_id, [is_active |-> is_active])
        cu == get_current_user(token)
        found == FindById(jobs, job_id)
        job == CHOOSE j \in found : TRUE
    IN  IF require_admin(token) # 200 THEN AdminDenied(req, token)
        ELSE IF found = {}
            THEN AnswerOnly(Respond(req, cu, 500, "Error updating job status", NoToken))
        ELSE IF job.is_active = is_active    \* modified_count == 0
            THEN AnswerOnly(Respond(req, cu, 500, "Error updating job status", NoToken))
        ELSE /\ jobs' = (jobs \ {job}) \cup {set_fields(job, [is_active |-> is_active])}
             /\ last' = Respond(req, cu, 200, "", NoToken)
             /\ UNCHANGED <<users, tokens, now, nextUserId, nextJobId, appVars, extVars>>

----------------------------------------------------------------------------
(* app/routers/job.py *)

\* The fields of JobBase the model keeps (JobCreate and JobUpdate add
\* none, and none has a default, so a request carries every one of them).
JobBaseFields == {"title", "location", "skills", "salary_min"}

JobPayloads ==
    {[title |-> "Backend Engineer", location |-> "Pune", skills |-> {"Go", "SQL"}, salary_min |-> 10],
     [title |-> "Data Analyst", location |-> "Delhi", skills |-> {"SQL"}, salary_min |-> 20]}

create_job_document(job, current_user, id) ==
    set_fields([id |-> id] @@ job,
               [created_by |-> current_user.id,
                posted_date |-> now,
                updated_at |-> now,
                is_active |-> TRUE,
                application_count |-> 0,
                view_count |-> 0])

\* Mutant for C9: the role gate of create_job refusing job seekers only.
may_create_job_not_seeker(current_user) == current_user.role # "job_seeker"

\* The role gate of create_job, on the identity get_current_user returned.
may_create_job(current_user) == current_user.role = "employer"

create_job(token, job) ==
    LET req == Request("create_job", 0, job)
        current_user == get_current_user(token)
        job_dict == create_job_document(job, current_user, nextJobId)
    IN  IF current_user = NoUser
        THEN AnswerOnly(Respond(req, NoUser, 401, "Authentication failed", NoToken))
        ELSE IF ~may_create_job(current_user)
        THEN AnswerOnly(Respond(req, current_user, 403, "Only employers can create jobs", NoToken))
        ELSE /\ nextJobId <= MaxJobs
             /\ jobs' = jobs \cup {job_dict}
             /\ nextJobId' = nextJobId + 1
             /\ last' = Respond(req, current_user, 200, "", NoToken)
             /\ UNCHANGED <<users, tokens, now, nextUserId, appVars, extVars>>

\* get_my_jobs: the postings of the caller.  get_current_user is called
\* outside any try, so nothing catches what it raises.
get_my_jobs(token) ==
    LET req == Request("get_my_jobs", 0, [token |-> token])
        current_user == get_current_user(token)
    IN  IF current_user = NoUser
        THEN AnswerOnly(Respond(req, NoUser, 500, "Internal Server Error", NoToken))
        ELSE AnswerOnly(Respond(req, current_user, 200, "", NoToken))

\* Mutant for C6: the ownership gate letting every employer through.
may_change_job_any_employer(job, current_user) ==
    ~(job.created_by # current_user.id /\ current_user.role \notin {"admin", "employer"})

\* The ownership gate of update_job and delete_job.
may_change_job(job, current_user) ==
    ~(job.created_by # current_user.id /\ current_user.role # "admin")

\* The "except Exception" that closes the try block of update_job and of
\* delete_job: whatever the block raised, the HTTPException of its own 404
\* and 403 included, the handler answers this.
job_except(raised_status, raised_detail) ==
    [status |-> 400, detail |-> "Invalid job ID"]

\* Mutant for C8: the update document carrying the server-side fields
\* create_job sets as well.
job_update_data_with_defaults(job_update) ==
    set_fields(job_update, [updated_at |-> now, is_active |-> TRUE,
                            application_count |-> 0, view_count |-> 0])

\* The update document of update_job: the dump of the request model
\* without the unset fields, and the timestamp.
job_update_data(job_update) == set_fields(job_update, [updated_at |-> now])

update_job(token, job_id, job_update) ==
    LET req == Request("update_job", job_id, job_update)
        current_user == get_current_user(token)
        found == FindById(jobs, job_id)
        job == CHOOSE j \in found : TRUE
        raise(status, detail) ==
            AnswerOnly(Respond(req, current_user, job_except(status, detail).status,
                               job_except(status, detail).detail, NoToken))
    IN  IF current_user = NoUser
        THEN AnswerOnly(Respond(req, NoUser, 500, "Internal Server Error", NoToken))
        ELSE IF job_id = 0 THEN raise(500, "InvalidId")
        ELSE IF found = {} THEN raise(404, "Job not found")
        ELSE IF ~may_change_job(job, current_user)
            THEN raise(403, "Not authorized to update this job")
        ELSE /\ jobs' = (jobs \ {job}) \cup {set_fields(job, job_update_data(job_update))}
             /\ last' = Respond(req, current_user, 200, "", NoToken)
             /\ UNCHANGED <<users, tokens, now, nextUserId, nextJobId, appVars, extVars>>

delete_job(token, job_id) ==
    LET req == Request("delete_job", job_id, NoBody)
        current_user == get_current_user(token)
        found == FindById(jobs, job_id)
        job == CHOOSE j \in found : TRUE
        raise(status, detail) ==
            AnswerOnly(Respond(req, current_user, job_except(status, detail).status,
                               job_except(status, detail).detail, NoToken))
    IN  IF current_user = NoUser
        THEN AnswerOnly(Respond(req, NoUser, 500, "Internal Server Error", NoToken))
        ELSE IF job_id = 0 THEN raise(500, "InvalidId")
        ELSE IF found = {} THEN raise(404, "Job not found")
        ELSE IF ~may_change_job(job, current_user)
            THEN raise(403, "Not authorized to delete this job")
        ELSE /\ jobs' = jobs \ found
             /\ last' = Respond(req, current_user, 200, "", NoToken)
             /\ UNCHANGED <<users, tokens, now, nextUserId, nextJobId, appVars, extVars>>

----------------------------------------------------------------------------
(* app/routers/applications.py and app/routers/jobseeker.py: submitting *)
(* an application.  Each handler reads the store (the job, the user, an  *)
(* application of the same user for the same job) and then inserts; the  *)
(* store serves other requests between the two.                          *)

FindApplication(coll, user_id, job_id) ==
    {a \in coll : a.user_id = user_id /\ a.job_id = job_id}

\* insert_one into the applications collection: its indexes on user_id,
\* job_id and (user_id, job_id) are not unique, so the store accepts every
\* document.
applications_insert_ok(coll, doc) == TRUE

FreeSlots == {s \in 1..MaxInflight : inflight[s] = Idle}

\* create_application up to its duplicate check.
create_application_check(s, token, application) ==
    LET req == Request("create_application", application.job_id, application)
        current_user == get_current_user(token)
        fail(status, detail) ==
            AnswerOnly(Respond(req, current_user, status, detail, NoToken))
    IN  /\ inflight[s] = Idle
        /\ IF current_user = NoUser THEN fail(500, "Internal server error")
           ELSE IF application.job_id = 0 THEN fail(400, "Invalid job ID format")
           ELSE IF FindById(jobs, application.job_id) = {} THEN fail(404, "Job not found")
           ELSE IF FindById(users, current_user.id) = {} THEN fail(404, "User not found")
           ELSE IF FindApplication(applications, current_user.id, application.job_id) # {}
               THEN fail(400, "Application already submitted for this job")
           ELSE /\ inflight' = [inflight EXCEPT ![s] =
                        [op |-> "create_application", caller |-> current_user,
                         job_id |-> application.job_id, status |-> application.status]]
                /\ UNCHANGED <<users, jobs, tokens, now, nextUserId, nextJobId,
                               applications, nextAppId, last, extVars>>

\* apply_for_job up to its duplicate check; its "except Exception" answers
\* 500 in place of the 403, 404 and 400 the try block raises.
apply_for_job_check(s, token, job_id) ==
    LET req == Request("apply_for_job", job_id, NoBody)
        user == get_current_user(token)
        fail(detail) == AnswerOnly(Respond(req, user, 500, detail, NoToken))
    IN  /\ inflight[s] = Idle
        /\ IF user = NoUser THEN fail("Error applying for job: Could not validate credentials")
           ELSE IF user.role # "job_seeker"
               THEN fail("Error applying for job: 403: Only job seekers can apply for jobs")
           ELSE IF job_id = 0 THEN fail("Error applying for job: InvalidId")
           ELSE IF FindById(jobs, job_id) = {} THEN fail("Error applying for job: 404: Job not found")
           ELSE IF FindApplication(applications, user.id, job_id) # {}
               THEN fail("Error applying for job: 400: Already applied for this job")
           ELSE /\ inflight' = [inflight EXCEPT ![s] =
                        [op |-> "apply_for_job", caller |-> user,
                         job_id |-> job_id, status |-> "applied"]]
                /\ UNCHANGED <<users, jobs, tokens, now, nextUserId, nextJobId,
                               applications, nextAppId, last, extVars>>

application_document(r, id) ==
    [id |-> id, job_id |-> r.job_id, user_id |-> r.caller.id, status |-> r.status]

\* The insert of a submission that passed its checks, and its answer.
\* apply_for_job then increments the application_count of the job.
submit_insert(s) ==
    LET r == inflight[s]
        doc == application_document(r, nextAppId)
        req == Request(r.op, r.job_id, [job_id |-> r.job_id, status |-> r.status])
    IN  /\ r # Idle
        /\ nextAppId <= MaxApps
        /\ applications_insert_ok(applications, doc)
        /\ applications' = applications \cup {doc}
        /\ nextAppId' = nextAppId + 1
        /\ jobs' = IF r.op = "apply_for_job"
                   THEN {IF j.id = r.job_id
                         THEN set_fields(j, [application_count |-> j.application_count + 1])
                         ELSE j : j \in jobs}
                   ELSE jobs
        /\ inflight' = [inflight EXCEPT ![s] = Idle]
        /\ last' = Respond(req, r.caller, 200, "", NoToken)
        /\ UNCHANGED <<users, tokens, now, nextUserId, nextJobId, extVars>>

----------------------------------------------------------------------------
(* app/routers/applications.py: reading, updating and deleting an         *)
(* application.                                                           *)

\* The ownership gate of get_job_applications.
may_view_job_applications(job, current_user) ==
    ~(job.created_by # current_user.id /\ current_user.role # "admin")

get_job_applications(token, job_id) ==
    LET req == Request("get_job_applications", job_id, NoBody)
        current_user == get_current_user(token)
        found == FindById(jobs, job_id)
        answer(status, detail) == AnswerOnly(Respond(req, current_user, status, detail, NoToken))
    IN  IF current_user = NoUser THEN answer(500, "Internal Server Error")
        ELSE IF job_id = 0 THEN answer(400, "Invalid job ID format")
        ELSE IF found = {} THEN answer(404, "Job not found")
        ELSE IF ~may_view_job_applications(CHOOSE j \in found : TRUE, current_user)
            THEN answer(403, "Not authorized to view applications for this job")
        ELSE answer(200, "")

\* The application get_application shows the caller: the caller's own, or
\* one for a job the caller posted ({} when there is none such).
visible_application(coll, application_id, current_user) ==
    {a \in FindById(coll, application_id) :
        \/ a.user_id = current_user.id
        \/ \E j \in jobs : j.id = a.job_id /\ j.created_by = current_user.id}

get_application(token, application_id) ==
    LET req == Request("get_application", application_id, NoBody)
        current_user == get_current_user(token)
        answer(status, detail) == AnswerOnly(Respond(req, current_user, status, detail, NoToken))
    IN  IF current_user = NoUser THEN answer(500, "Internal Server Error")
        ELSE IF application_id = 0 THEN answer(400, "Invalid application ID")
        ELSE IF visible_application(applications, application_id, current_user) = {}
            THEN answer(404, "Application not found or not authorized to view")
        ELSE answer(200, "")

\* The documents the update_one of update_application matches: the filter
\* names the application and the caller as its user.
update_application_matched(coll, application_id, current_user) ==
    {a \in FindById(coll, application_id) : a.user_id = current_user.id}

\* update_application raises its 400 and 404 inside a try whose "except
\* Exception" answers 400 "Invalid application ID" in their place.
update_application(token, application_id, application_update) ==
    LET req == Request("update_application", application_id, application_update)
        current_user == get_current_user(token)
        matched == update_application_matched(applications, application_id, current_user)
        application == CHOOSE a \in matched : TRUE
        update_data == set_fields(application_update, [updated_date |-> now])
        answer(status, detail) == AnswerOnly(Respond(req, current_user, status, detail, NoToken))
    IN  IF current_user = NoUser THEN answer(500, "Internal Server Error")
        ELSE IF application_id = 0 \/ matched = {} THEN answer(400, "Invalid application ID")
        ELSE /\ applications' = (applications \ {application}) \cup
                                    {set_fields(application, update_data)}
             /\ last' = Respond(req, current_user, 200, "", NoToken)
             /\ UNCHANGED <<users, jobs, tokens, now, nextUserId, nextJobId,
                            nextAppId, inflight, extVars>>

\* The ownership gate of delete_application.
may_delete_application(application, current_user) ==
    ~(application.user_id # current_user.id /\ current_user.role # "admin")

\* delete_application raises its 400, 404 and 403 inside a try whose
\* "except Exception" answers 400 "Invalid application ID" in their place.
delete_application(token, application_id) ==
    LET req == Request("delete_application", application_id, NoBody)
        current_user == get_current_user(token)
        found == FindById(applications, application_id)
        answer(status, detail) == AnswerOnly(Respond(req, current_user, status, detail, NoToken))
    IN  IF current_user = NoUser THEN answer(500, "Internal Server Error")
        ELSE IF application_id = 0 \/ found = {} THEN answer(400, "Invalid application ID")
        ELSE IF ~may_delete_application(CHOOSE a \in found : TRUE, current_user)
            THEN answer(400, "Invalid application ID")
        ELSE /\ applications' = applications \ found
             /\ last' = Respond(req, current_user, 200, "", NoToken)
             /\ UNCHANGED <<users, jobs, tokens, now, nextUserId, nextJobId,
                            nextAppId, inflight, extVars>>

----------------------------------------------------------------------------
(* app/routers/company.py *)

\* The fields of CompanyBase the model keeps; CompanyCreate adds owner_id,
\* CompanyUpdate adds none, and none has a default.
CompanyPayloads ==
    {[name |-> "Acme", website |-> "acme.io"], [name |-> "Acme", website |-> "acme.com"]}

\* insert_one into (or update_one of) the companies collection, which has
\* a unique index on name: TRUE when the store accepts the document.
companies_write_ok(coll, doc) == \A c \in coll : c.name = doc.name => c.id = doc.id

create_company(token, company) ==
    LET req == Request("create_company", 0, company)
        current_user == get_current_user(token)
        company_dict == set_fields([id |-> nextDocId] @@ company,
                                   [created_by |-> current_user.id,
                                    verification_status |-> "pending",
                                    is_verified |-> FALSE,
                                    created_at |-> now,
                                    updated_at |-> now])
    IN  IF current_user = NoUser
        THEN AnswerOnly(Respond(req, NoUser, 500, "Internal Server Error", NoToken))
        ELSE IF current_user.role # "employer"
        THEN AnswerOnly(Respond(req, current_user, 403, "Only employers can create companies", NoToken))
        ELSE IF \E c \in companies : c.name = company.name
        THEN AnswerOnly(Respond(req, current_user, 400, "Company with this name already exists", NoToken))
        ELSE /\ companies_write_ok(companies, company_dict)
             /\ companies' = companies \cup {company_dict}
             /\ nextDocId' = nextDocId + 1
             /\ last' = Respond(req, current_user, 200, "", NoToken)
             /\ UNCHANGED <<users, jobs, tokens, now, nextUserId, nextJobId, appVars,
                            verifications, saved_jobs, profiles, reviews, profile_data, completion, job_alerts, listing>>

\* The ownership gate of update_company.
may_change_company(company, current_user) ==
    ~(company.created_by # current_user.id /\ current_user.role # "admin")

\* update_company raises its 404, 403 and 400 inside a try whose "except
\* Exception" answers 400 "Invalid company ID" in their place.  The update
\* always modifies the document, its updated_at at least.
update_company(token, company_id, company_update) ==
    LET req == Request("update_company", company_id, company_update)
        current_user == get_current_user(token)
        found == FindById(companies, company_id)
        company == CHOOSE c \in found : TRUE
        updated == set_fields(company, set_fields(company_update, [updated_at |-> now]))
        raise == AnswerOnly(Respond(req, current_user, 400, "Invalid company ID", NoToken))
    IN  IF current_user = NoUser
        THEN AnswerOnly(Respond(req, NoUser, 500, "Internal Server Error", NoToken))
        ELSE IF company_id = 0 \/ found = {} THEN raise
        ELSE IF ~may_change_company(company, current_user) THEN raise
        ELSE IF ~companies_write_ok(companies, updated) THEN raise
        ELSE /\ companies' = (companies \ {company}) \cup {updated}
             /\ last' = Respond(req, current_user, 200, "", NoToken)
             /\ UNCHANGED <<users, jobs, tokens, now, nextUserId, nextJobId, appVars,
                            verifications, saved_jobs, profiles, reviews, nextDocId,
                            profile_data, completion, job_alerts, listing>>

----------------------------------------------------------------------------
(* app/routers/company_verification.py: no route of it takes a token.    *)
(* Every handler raises inside a try whose "except Exception" answers    *)
(* 500 in place of the 403, 404 and 400 raised.                          *)

VerificationStatuses == {"pending", "approved", "rejected"}

\* The caller a handler of this router knows: the user of the
\* current_user_id query parameter, 0 when the request omits it.
verification_caller(current_user_id) ==
    IF current_user_id = 0 THEN NoUser
    ELSE [id |-> current_user_id, email |-> "", role |-> get_current_user_role(current_user_id)]

\* insert_one into the company_verifications collection, which has a
\* unique index on company_id.
verifications_insert_ok(coll, doc) == \A v \in coll : v.company_id # doc.company_id

create_company_verification(verification) ==
    LET req == Request("create_company_verification", verification.company_id, verification)
        caller == verification_caller(verification.owner_id)
        found == FindById(companies, verification.company_id)
        company == CHOOSE c \in found : TRUE
        verification_dict == set_fields([id |-> nextDocId] @@ verification,
                                        [created_at |-> now, updated_at |-> now])
        fail(detail) == AnswerOnly(Respond(req, caller, 500, detail, NoToken))
    IN  IF verification.company_id = 0 THEN fail("Error creating verification request: InvalidId")
        ELSE IF found = {} THEN fail("Error creating verification request: 404: Company not found")
        ELSE IF company.owner_id # verification.owner_id
            THEN fail("Error creating verification request: 403: You don't have permission to verify this company")
        ELSE IF \E v \in verifications : v.company_id = verification.company_id
            THEN fail("Error creating verification request: 400: Verification request already exists for this company")
        ELSE /\ verifications_insert_ok(verifications, verification_dict)
             /\ verifications' = verifications \cup {verification_dict}
             /\ nextDocId' = nextDocId + 1
             /\ last' = Respond(req, caller, 200, "", NoToken)
             /\ UNCHANGED <<users, jobs, tokens, now, nextUserId, nextJobId, appVars,
                            companies, saved_jobs, profiles, reviews, profile_data, completion, job_alerts, listing>>

\* The admin check of update_company_verification: made only when the
\* request carries a current_user_id.  "" when the handler goes on.
verification_update_rejects(current_user_id) ==
    IF current_user_id = 0 THEN ""
    ELSE IF FindById(users, current_user_id) = {}
        THEN "Error updating verification: 404: User not found"
    ELSE IF get_current_user_role(current_user_id) # "admin"
        THEN "Error updating verification: 403: Only admins can update verification status"
    ELSE ""

\* The update document: the fields the request set, the timestamp, and
\* verified_by when the status is among them and the caller is known.
verification_update_data(verification_update, current_user_id) ==
    LET update_data == set_fields(verification_update, [updated_at |-> now])
    IN  IF "verification_status" \in DOMAIN update_data /\ current_user_id # 0
        THEN set_fields(update_data, [verified_by |-> current_user_id])
        ELSE update_data

update_company_verification(verification_id, verification_update, current_user_id) ==
    LET req == Request("update_company_verification", verification_id,
                       [update |-> verification_update, current_user_id |-> current_user_id])
        caller == verification_caller(current_user_id)
        found == FindById(verifications, verification_id)
        existing_verification == CHOOSE v \in found : TRUE
        why == verification_update_rejects(current_user_id)
        fail(detail) == AnswerOnly(Respond(req, caller, 500, detail, NoToken))
    IN  IF verification_id = 0 THEN fail("Error updating verification: InvalidId")
        ELSE IF found = {} THEN fail("Error updating verification: 404: Verification request not found")
        ELSE IF why # "" THEN fail(why)
        ELSE /\ verifications' = (verifications \ {existing_verification}) \cup
                    {set_fields(existing_verification,
                                verification_update_data(verification_update, current_user_id))}
             /\ last' = Respond(req, caller, 200, "", NoToken)
             /\ UNCHANGED <<users, jobs, tokens, now, nextUserId, nextJobId, appVars,
                            companies, saved_jobs, profiles, reviews, nextDocId,
                            profile_data, completion, job_alerts, listing>>

----------------------------------------------------------------------------
(* app/routers/saved_jobs.py and app/routers/jobseeker.py: saving a job. *)
(* Both handlers look for a saved job of the caller for the job, then    *)
(* read the job, then insert; the store serves other requests in         *)
(* between.  Their "except Exception" answers 500 in place of the 403,   *)
(* 400 and 404 raised.                                                   *)

FindSavedJob(coll, user_id, job_id) ==
    {d \in coll : d.user_id = user_id /\ d.job_id = job_id}

\* insert_one into the saved_jobs collection: its indexes on user_id and
\* on job_id are not unique, so the store accepts every document.
saved_jobs_insert_ok(coll, doc) == TRUE

\* Either save_job up to its insert; op names the route.
save_job_check(s, op, token, job_id) ==
    LET req == Request(op, job_id, NoBody)
        user == get_current_user(token)
        fail(detail) == AnswerOnly(Respond(req, user, 500, detail, NoToken))
    IN  /\ inflight[s] = Idle
        /\ IF user = NoUser THEN fail("Error saving job: Could not validate credentials")
           ELSE IF user.role # "job_seeker"
               THEN fail("Error saving job: 403: Only job seekers can save jobs")
           ELSE IF FindSavedJob(saved_jobs, user.id, job_id) # {}
               THEN fail("Error saving job: 400: Job already saved")
           ELSE IF job_id = 0 THEN fail("Error saving job: InvalidId")
           ELSE IF FindById(jobs, job_id) = {} THEN fail("Error saving job: 404: Job not found")
           ELSE /\ inflight' = [inflight EXCEPT ![s] =
                        [op |-> op, caller |-> user, job_id |-> job_id]]
                /\ UNCHANGED <<users, jobs, tokens, now, nextUserId, nextJobId,
                               applications, nextAppId, last, extVars>>

\* The insert of a save that passed its checks, and its answer.
save_job_insert(s) ==
    LET r == inflight[s]
        saved_job_dict == [id |-> nextDocId, user_id |-> r.caller.id, job_id |-> r.job_id,
                           created_at |-> now]
    IN  /\ r # Idle
        /\ r.op \in {"save_job", "jobseeker_save_job"}
        /\ Cardinality(saved_jobs) < MaxDocs
        /\ saved_jobs_insert_ok(saved_jobs, saved_job_dict)
        /\ saved_jobs' = saved_jobs \cup {saved_job_dict}
        /\ nextDocId' = nextDocId + 1
        /\ inflight' = [inflight EXCEPT ![s] = Idle]
        /\ last' = Respond(Request(r.op, r.job_id, NoBody), r.caller, 200, "", NoToken)
        /\ UNCHANGED <<users, jobs, tokens, now, nextUserId, nextJobId, applications, nextAppId,
                       companies, verifications, profiles, reviews, profile_data, completion, job_alerts, listing>>

----------------------------------------------------------------------------
(* app/routers/profile.py: create_profile and update_user_profile.  Each *)
(* looks for the profile of the user and then inserts one when it found  *)
(* none.                                                                  *)

FindProfile(coll, user_id) == {d \in coll : d.user_id = user_id}

\* insert_one into the profiles collection, which has no index at all
\* (the unique indexes on user_id are on job_seeker_profiles and on
\* recruiter_profiles), so the store accepts every document.
profiles_insert_ok(coll, doc) == TRUE

\* calculate_profile_completion of a dictionary that may lack fields:
\* profile_data.get gives None, or the empty list, for those.
completion_of(profile_dict) ==
    calculate_profile_completion(set_fields(EmptyProfile, profile_dict))

\* create_profile up to its insert.  profile is the dump of the request
\* model, user_id included.
create_profile_check(s, token, profile) ==
    LET req == Request("create_profile", profile.user_id, profile)
        user == get_current_user(token)
        answer(status, detail) == AnswerOnly(Respond(req, user, status, detail, NoToken))
        profile_dict == set_fields(profile, [profile_completion |-> completion_of(profile),
                                             created_at |-> now, updated_at |-> now])
    IN  /\ inflight[s] = Idle
        /\ IF user = NoUser THEN answer(500, "Error creating profile: Could not validate credentials")
           ELSE IF FindProfile(profiles, profile.user_id) # {}
               THEN answer(400, "Profile already exists for this user")
           ELSE IF user.id # profile.user_id
               THEN answer(403, "Not authorized to create profile for another user")
           ELSE /\ inflight' = [inflight EXCEPT ![s] =
                        [op |-> "create_profile", caller |-> user, doc |-> profile_dict]]
                /\ UNCHANGED <<users, jobs, tokens, now, nextUserId, nextJobId,
                               applications, nextAppId, last, extVars>>

\* update_user_profile: the update of the profile it found, or, when it
\* found none, the steps up to the insert of a new one.  profile holds the
\* fields the request set.
update_user_profile(s, token, user_id, profile) ==
    LET req == Request("update_user_profile", user_id, profile)
        user == get_current_user(token)
        found == FindProfile(profiles, user_id)
        existing_profile == CHOOSE d \in found : TRUE
        merged_profile == set_fields(existing_profile, profile)
        answer(status, detail) == AnswerOnly(Respond(req, user, status, detail, NoToken))
    IN  /\ inflight[s] = Idle
        /\ IF user = NoUser THEN answer(500, "Error updating profile: Could not validate credentials")
           ELSE IF user.id # user_id THEN answer(403, "Not authorized to update this profile")
           ELSE IF found = {}
           THEN /\ inflight' = [inflight EXCEPT ![s] =
                        [op |-> "update_user_profile", caller |-> user,
                         doc |-> set_fields(profile,
                                    [profile_completion |-> completion_of(profile),
                                     user_id |-> user_id,
                                     created_at |-> now, updated_at |-> now])]]
                /\ UNCHANGED <<users, jobs, tokens, now, nextUserId, nextJobId,
                               applications, nextAppId, last, extVars>>
           ELSE \* update_one with the filter {"user_id": user_id} writes the first match
                /\ profiles' = (profiles \ {existing_profile}) \cup
                        {set_fields(existing_profile,
                            set_fields(profile,
                                [profile_completion |-> completion_of(merged_profile),
                                 updated_at |-> now]))}
                /\ last' = Respond(req, user, 200, "", NoToken)
                /\ UNCHANGED <<users, jobs, tokens, now, nextUserId, nextJobId, appVars,
                               companies, verifications, saved_jobs, reviews, nextDocId,
                               profile_data, completion, job_alerts, listing>>

\* The insert of a profile by a request that found none, and its answer.
profile_insert(s) ==
    LET r == inflight[s]
        profile_dict == [id |-> nextDocId] @@ r.doc
    IN  /\ r # Idle
        /\ r.op \in {"create_profile", "update_user_profile"}
        /\ Cardinality(profiles) < MaxDocs
        /\ profiles_insert_ok(profiles, profile_dict)
        /\ profiles' = profiles \cup {profile_dict}
        /\ nextDocId' = nextDocId + 1
        /\ inflight' = [inflight EXCEPT ![s] = Idle]
        /\ last' = Respond(Request(r.op, r.doc.user_id, r.doc), r.caller, 200, "", NoToken)
        /\ UNCHANGED <<users, jobs, tokens, now, nextUserId, nextJobId, applications, nextAppId,
                       companies, verifications, saved_jobs, reviews, profile_data, completion, job_alerts, listing>>

\* update_profile: the profile is found by its own id and must belong to
\* the caller.  The completion written is that of the fields the request
\* set, not of the profile merged with them.
update_profile(token, profile_id, profile) ==
    LET req == Request("update_profile", profile_id, profile)
        user == get_current_user(token)
        found == FindById(profiles, profile_id)
        existing_profile == CHOOSE d \in found : TRUE
        profile_dict == set_fields(profile, [profile_completion |-> completion_of(profile),
                                             updated_at |-> now])
        answer(status, detail) == AnswerOnly(Respond(req, user, status, detail, NoToken))
    IN  IF user = NoUser THEN answer(500, "Error updating profile: Could not validate credentials")
        ELSE IF profile_id = 0 THEN answer(500, "Error updating profile: InvalidId")
        ELSE IF found = {} THEN answer(404, "Profile not found")
        ELSE IF existing_profile.user_id # user.id
            THEN answer(403, "Not authorized to update this profile")
        ELSE /\ profiles' = (profiles \ {existing_profile})
                                \cup {set_fields(existing_profile, profile_dict)}
             /\ last' = Respond(req, user, 200, "", NoToken)
             /\ UNCHANGED <<users, jobs, tokens, now, nextUserId, nextJobId, appVars,
                            companies, verifications, saved_jobs, reviews, nextDocId,
                            profile_data, completion, job_alerts, listing>>

allowed_types == {"image/jpeg", "image/jpg", "image/png", "image/gif"}

\* "/uploads/profile_pictures/{user_id}.{file_extension}"
profile_picture_url(user_id, file_extension) ==
    "/uploads/profile_pictures/" \o ToString(user_id) \o "." \o file_extension

\* update_one with the filter {"user_id": user_id}: the document it
\* writes, the first match (none when nothing matches).
first_profile_of(coll, user_id) ==
    IF FindProfile(coll, user_id) = {} THEN {}
    ELSE {CHOOSE d \in FindProfile(coll, user_id) : TRUE}

\* upload_profile_picture: the picture of the caller's profile is set,
\* and then the completion of the profile as it is stored.  The file
\* itself goes to the disk, which is no part of the store.
upload_profile_picture(token, content_type, file_extension) ==
    LET req == Request("upload_profile_picture", 0,
                       [content_type |-> content_type, file_extension |-> file_extension])
        user == get_current_user(token)
        answer(status, detail) == AnswerOnly(Respond(req, user, status, detail, NoToken))
        with_picture(d) ==
            set_fields(d, [profilePicture |-> profile_picture_url(user.id, file_extension),
                           updated_at |-> now])
        with_completion(d) == set_fields(d, [profile_completion |-> completion_of(d)])
    IN  IF user = NoUser
            THEN answer(500, "Error uploading profile picture: Could not validate credentials")
        ELSE IF content_type \notin allowed_types
            THEN answer(400, "Invalid file type. Only JPEG, PNG, and GIF images are allowed.")
        ELSE /\ profiles' = (profiles \ first_profile_of(profiles, user.id))
                    \cup {with_completion(with_picture(d)) : d \in first_profile_of(profiles, user.id)}
             /\ last' = Respond(req, user, 200, "", NoToken)
             /\ UNCHANGED <<users, jobs, tokens, now, nextUserId, nextJobId, appVars,
                            companies, verifications, saved_jobs, reviews, nextDocId,
                            profile_data, completion, job_alerts, listing>>

\* existing_profile.get("profile_views", 0)
profile_views_of(doc) == IF "profile_views" \in DOMAIN doc THEN doc.profile_views ELSE 0

\* increment_profile_view up to its write: the profile is read and the
\* new count computed from what was read.
increment_profile_view_read(s, token, user_id) ==
    LET req == Request("increment_profile_view", user_id, NoBody)
        viewer == get_current_user(token)
        found == FindProfile(profiles, user_id)
        existing_profile == CHOOSE d \in found : TRUE
        answer(status, detail) == AnswerOnly(Respond(req, viewer, status, detail, NoToken))
    IN  /\ inflight[s] = Idle
        /\ IF viewer = NoUser
               THEN answer(500, "Error incrementing view count: Could not validate credentials")
           ELSE IF found = {} THEN answer(404, "Profile not found")
           ELSE /\ inflight' = [inflight EXCEPT ![s] =
                        [op |-> "increment_profile_view", caller |-> viewer, user_id |-> user_id,
                         new_views |-> profile_views_of(existing_profile) + 1]]
                /\ UNCHANGED <<users, jobs, tokens, now, nextUserId, nextJobId,
                               applications, nextAppId, last, extVars>>

\* The write of increment_profile_view, and its answer.
increment_profile_view_write(s) ==
    LET r == inflight[s]
    IN  /\ r # Idle
        /\ r.op = "increment_profile_view"
        /\ profiles' = (profiles \ first_profile_of(profiles, r.user_id))
                \cup {set_fields(d, [profile_views |-> r.new_views])
                        : d \in first_profile_of(profiles, r.user_id)}
        /\ inflight' = [inflight EXCEPT ![s] = Idle]
        /\ last' = Respond(Request("increment_profile_view", r.user_id, [views |-> r.new_views]),
                           r.caller, 200, "View count incremented", NoToken)
        /\ UNCHANGED <<users, jobs, tokens, now, nextUserId, nextJobId, applications, nextAppId,
                       companies, verifications, saved_jobs, reviews, nextDocId,
                       profile_data, completion, job_alerts, listing>>

----------------------------------------------------------------------------
(* app/routers/review.py: no route of it takes a token; the request      *)
(* names the reviewing user.  Every handler raises inside a try whose    *)
(* "except Exception" answers 500 in place of the 404 and 400 raised.    *)

\* A rating field holds {n} for the integer n, and {} for null, which
\* ReviewUpdate accepts (Optional[int]) and ReviewCreate does not.
RatingFields == {"rating_work_culture", "rating_salary", "rating_hr", "rating_management"}

\* "not 1 <= rating <= 5"
rating_out_of_range(rating) == \E n \in rating : ~(RATING_MIN <= n /\ n <= RATING_MAX)

FindReview(coll, user_id, company_id) ==
    {d \in coll : d.user_id = user_id /\ d.company_id = company_id}

\* insert_one into the reviews collection: its indexes on company_id, on
\* user_id and on created_at are not unique, so the store accepts every
\* document.
reviews_insert_ok(coll, doc) == TRUE

\* The first rating create_review finds out of range, in the order it
\* checks them ("" when all are in range).
create_review_rejects(review) ==
    IF rating_out_of_range(review.rating_work_culture)
        THEN "Error creating review: 400: Work culture rating must be between 1 and 5"
    ELSE IF rating_out_of_range(review.rating_salary)
        THEN "Error creating review: 400: Salary rating must be between 1 and 5"
    ELSE IF rating_out_of_range(review.rating_hr)
        THEN "Error creating review: 400: HR rating must be between 1 and 5"
    ELSE IF rating_out_of_range(review.rating_management)
        THEN "Error creating review: 400: Management rating must be between 1 and 5"
    ELSE ""

\* create_review up to its insert.
create_review_check(s, review) ==
    LET req == Request("create_review", review.company_id, review)
        caller == NoUser
        fail(detail) == AnswerOnly(Respond(req, caller, 500, detail, NoToken))
    IN  /\ inflight[s] = Idle
        /\ IF review.company_id = 0 \/ review.user_id = 0 THEN fail("Error creating review: InvalidId")
           ELSE IF FindById(companies, review.company_id) = {}
               THEN fail("Error creating review: 404: Company not found")
           ELSE IF FindById(users, review.user_id) = {}
               THEN fail("Error creating review: 404: User not found")
           ELSE IF FindReview(reviews, review.user_id, review.company_id) # {}
               THEN fail("Error creating review: 400: You have already reviewed this company")
           ELSE IF create_review_rejects(review) # "" THEN fail(create_review_rejects(review))
           ELSE /\ inflight' = [inflight EXCEPT ![s] =
                        [op |-> "create_review", caller |-> caller,
                         doc |-> set_fields(review, [created_at |-> now, updated_at |-> now])]]
                /\ UNCHANGED <<users, jobs, tokens, now, nextUserId, nextJobId,
                               applications, nextAppId, last, extVars>>

\* The insert of a review that passed its checks, and its answer.
review_insert(s) ==
    LET r == inflight[s]
        review_dict == [id |-> nextDocId] @@ r.doc
    IN  /\ r # Idle
        /\ r.op = "create_review"
        /\ Cardinality(reviews) < MaxDocs
        /\ reviews_insert_ok(reviews, review_dict)
        /\ reviews' = reviews \cup {review_dict}
        /\ nextDocId' = nextDocId + 1
        /\ inflight' = [inflight EXCEPT ![s] = Idle]
        /\ last' = Respond(Request("create_review", r.doc.company_id, r.doc), r.caller,
                           200, "", NoToken)
        /\ UNCHANGED <<users, jobs, tokens, now, nextUserId, nextJobId, applications, nextAppId,
                       companies, verifications, saved_jobs, profiles, profile_data, completion, job_alerts, listing>>

\* The ratings update_review refuses: those the request set to an integer
\* out of range.  A rating set to null passes.
update_review_rejects(update_data) ==
    \E f \in RatingFields \cap DOMAIN update_data :
        update_data[f] # {} /\ rating_out_of_range(update_data[f])

\* update_review: the update is written before the answer is built, and
\* the Review built of the updated document fails on a null rating.
update_review(review_id, review_update) ==
    LET req == Request("update_review", review_id, review_update)
        found == FindById(reviews, review_id)
        existing_review == CHOOSE d \in found : TRUE
        updated_review == set_fields(existing_review,
                                     set_fields(review_update, [updated_at |-> now]))
        fail(detail) == AnswerOnly(Respond(req, NoUser, 500, detail, NoToken))
    IN  IF review_id = 0 THEN fail("Error updating review: InvalidId")
        ELSE IF found = {} THEN fail("Error updating review: 404: Review not found")
        ELSE IF update_review_rejects(review_update)
            THEN fail("Error updating review: 400: rating must be between 1 and 5")
        ELSE /\ reviews' = (reviews \ {existing_review}) \cup {updated_review}
             /\ last' = IF \E f \in RatingFields : updated_review[f] = {}
                        THEN Respond(req, NoUser, 500, "Error updating review: validation error", NoToken)
                        ELSE Respond(req, NoUser, 200, "", NoToken)
             /\ UNCHANGED <<users, jobs, tokens, now, nextUserId, nextJobId, appVars,
                            companies, verifications, saved_jobs, profiles, nextDocId,
                            profile_data, completion, job_alerts, listing>>

----------------------------------------------------------------------------
(* init_sample_data.py: the script that fills the store with sample      *)
(* data.  Its jobs carry posted_by and posted_at where those of           *)
(* create_job carry created_by and posted_date.                           *)

\* The _id of the k-th sample document of a collection: an ObjectId the
\* store generates, distinct from every _id it gives the server's inserts.
SampleId(k) == 0 - k

SampleUsers ==
    {[id |-> SampleId(1), email |-> "jobseeker@example.com", password |-> "Password123!",
      hashed_password |-> get_password_hash("Password123!"), role |-> "job_seeker",
      mobile |-> "9876543210", is_verified |-> TRUE, created_at |-> now],
     [id |-> SampleId(2), email |-> "employer@example.com", password |-> "Password123!",
      hashed_password |-> get_password_hash("Password123!"), role |-> "employer",
      mobile |-> "9876543211", is_verified |-> TRUE, created_at |-> now]}

\* The fields of the sample jobs the model keeps of a job, as the script
\* writes them.
SamplePostings ==
    {[k |-> 1, title |-> "Senior Software Engineer", location |-> "Bangalore",
      skills |-> {"Python", "Django", "React", "AWS"}, salary_min |-> 800000],
     [k |-> 2, title |-> "Product Manager", location |-> "Mumbai",
      skills |-> {"Product Management", "Agile", "Analytics", "Leadership"},
      salary_min |-> 1000000],
     [k |-> 3, title |-> "Data Scientist", location |-> "Hyderabad",
      skills |-> {"Python", "Machine Learning", "SQL", "Statistics"}, salary_min |-> 900000]}

SampleJob(posting) ==
    [id |-> SampleId(posting.k), title |-> posting.title, location |-> posting.location,
     skills |-> posting.skills, salary_min |-> posting.salary_min,
     posted_by |-> SampleId(2), posted_at |-> now,
     is_active |-> TRUE, application_count |-> 0, view_count |-> 0]

SampleJobs == {SampleJob(posting) : posting \in SamplePostings}

init_sample_data ==
    /\ users' = SampleUsers
    /\ jobs' = SampleJobs
    /\ applications' = {}
    /\ saved_jobs' = {}
    /\ last' = Respond(Request("init_sample_data", 0, NoBody), NoUser, 200, "", NoToken)
    /\ UNCHANGED <<tokens, now, nextUserId, nextJobId, nextAppId, inflight,
                   companies, verifications, profiles, reviews, nextDocId,
                   profile_data, completion, job_alerts, listing>>

----------------------------------------------------------------------------
(* app/routers/job_alert.py, and search_jobs of app/routers/job.py.  No  *)
(* route of job_alert.py takes a token.  Of the search parameters the     *)
(* model keeps those on the fields it keeps of a job, and job_type.       *)

\* A "$regex" with "$options": "i" of a pattern without metacharacters:
\* the pattern occurs in the text, letter case ignored.  lower and
\* fragments cover the texts of the model.
lower(text) ==
    CASE text = "Hyderabad" -> "hyderabad"
      [] text = "Pune" -> "pune"
      [] text = "Delhi" -> "delhi"
      [] text = "Bangalore" -> "bangalore"
      [] text = "Mumbai" -> "mumbai"
      [] text = "Data" -> "data"
      [] text = "Data Scientist" -> "data scientist"
      [] text = "Data Analyst" -> "data analyst"
      [] text = "Backend Engineer" -> "backend engineer"
      [] text = "Senior Software Engineer" -> "senior software engineer"
      [] text = "Product Manager" -> "product manager"
      [] OTHER -> text

fragments(text) ==
    {text} \cup (IF text \in {"data scientist", "data analyst"} THEN {"data"} ELSE {})

regex_search(pattern, text) == lower(pattern) \in fragments(lower(text))

\* search_params.get(key) taken for true: the key is there and its
\* value is no empty string, no zero and no empty list.
text_given(search_params, key) == key \in DOMAIN search_params /\ search_params[key] # ""
number_given(search_params, key) == key \in DOMAIN search_params /\ search_params[key] # 0
list_given(search_params, key) == key \in DOMAIN search_params /\ search_params[key] # {}

\* {"skills": {"$in": wanted}}
skills_in(job_skills, wanted) == job_skills \cap wanted # {}

\* Mutant for C22: the alert matcher with the "$in" of the job search.
skills_all_as_in(job_skills, wanted) == job_skills \cap wanted # {}

\* {"skills": {"$all": wanted}}
skills_all(job_skills, wanted) == wanted \subseteq job_skills

\* The "$or" of a search term.  The model keeps no description of a job.
search_term_matches(job, search) ==
    regex_search(search, job.title) \/ skills_in(job.skills, {search})

\* Mutant for C24: a window that starts at the time of the run.
alert_since_now(alert) == now

\* The start of the window of an alert: its last_triggered or, when it
\* has none, seven days before now.  last_triggered is {} for None.
alert_since(alert) ==
    IF alert.last_triggered # {} THEN CHOOSE t \in alert.last_triggered : TRUE
    ELSE now - ALERT_WINDOW_DAYS * MINUTES_PER_DAY

\* The query get_recent_jobs_for_alerts builds of an alert, apart from
\* its window, applied to a job document.
alert_query_matches(job, search_params) ==
    /\ job.is_active = TRUE
    /\ text_given(search_params, "search") => search_term_matches(job, search_params.search)
    /\ text_given(search_params, "location") => regex_search(search_params.location, job.location)
    /\ number_given(search_params, "salary_min") => job.salary_min >= search_params.salary_min
    /\ text_given(search_params, "job_type")
            => ("job_type" \in DOMAIN job /\ job.job_type = search_params.job_type)
    /\ list_given(search_params, "skills") => skills_all(job.skills, search_params.skills)

\* {"posted_at": {"$gte": since}}: a document without the field does
\* not match.
posted_at_gte(job, since) == "posted_at" \in DOMAIN job /\ job.posted_at >= since

\* get_recent_jobs_for_alerts: for every active alert of the user, the
\* jobs its query finds, each with the id of the alert.  No job of the
\* store has a company_id, so the lookup of a company is never reached.
matching_jobs(user_id) ==
    LET alerts == {a \in job_alerts : a.user_id = user_id /\ a.is_active = TRUE}
        found == {pair \in jobs \X alerts :
                    /\ alert_query_matches(pair[1], pair[2].search_params)
                    /\ posted_at_gte(pair[1], alert_since(pair[2]))}
    IN  {[job_id |-> pair[1].id, matched_alert_id |-> pair[2].id] : pair \in found}

get_recent_jobs_for_alerts(user_id) ==
    /\ listing' = matching_jobs(user_id)
    /\ last' = Respond(Request("get_recent_jobs_for_alerts", user_id, NoBody), NoUser,
                       200, "", NoToken)
    /\ UNCHANGED <<users, jobs, tokens, now, nextUserId, nextJobId, appVars,
                   companies, verifications, saved_jobs, profiles, reviews, nextDocId,
                   profile_data, completion, job_alerts>>

\* search_jobs with its other parameters at their defaults; the store
\* holds fewer jobs than the default limit.  Nothing is matched to an
\* alert: matched_alert_id is 0.
search_jobs(search, location, salary_min, skills) ==
    LET query_matches(job) ==
            /\ job.is_active = TRUE
            /\ search # "" => search_term_matches(job, search)
            /\ location # "" => regex_search(location, job.location)
            /\ salary_min > 0 => job.salary_min >= salary_min
            /\ skills # {} => skills_in(job.skills, skills)
    IN  /\ listing' = {[job_id |-> job.id, matched_alert_id |-> 0] :
                            job \in {j \in jobs : query_matches(j)}}
        /\ last' = Respond(Request("search_jobs", 0,
                                   [search |-> search, location |-> location,
                                    salary_min |-> salary_min, skills |-> skills]),
                           NoUser, 200, "", NoToken)
        /\ UNCHANGED <<users, jobs, tokens, now, nextUserId, nextJobId, appVars,
                       companies, verifications, saved_jobs, profiles, reviews, nextDocId,
                       profile_data, completion, job_alerts>>

\* create_job_alert: the "except Exception" answers 500 in place of the
\* 404 and 400 raised.
create_job_alert(alert) ==
    LET req == Request("create_job_alert", 0, alert)
        fail(detail) == AnswerOnly(Respond(req, NoUser, 500, detail, NoToken))
        alert_dict == [id |-> nextDocId] @@
                      set_fields(alert, [created_at |-> now, updated_at |-> now,
                                         last_triggered |-> {}, matched_jobs_count |-> 0])
    IN  IF alert.user_id = 0 THEN fail("Error creating job alert: InvalidId")
        ELSE IF FindById(users, alert.user_id) = {}
            THEN fail("Error creating job alert: 404: User not found")
        ELSE IF \E a \in job_alerts :
                    a.user_id = alert.user_id /\ a.search_params = alert.search_params
            THEN fail("Error creating job alert: 400: Job alert with these parameters already exists")
        ELSE /\ Cardinality(job_alerts) < MaxDocs
             /\ job_alerts' = job_alerts \cup {alert_dict}
             /\ nextDocId' = nextDocId + 1
             /\ last' = Respond(req, NoUser, 200, "", NoToken)
             /\ UNCHANGED <<users, jobs, tokens, now, nextUserId, nextJobId, appVars,
                            companies, verifications, saved_jobs, profiles, reviews,
                            profile_data, completion, listing>>

\* update_job_alert: find_one_and_update with the fields the request set.
update_job_alert(alert_id, alert_update) ==
    LET req == Request("update_job_alert", alert_id, alert_update)
        found == FindById(job_alerts, alert_id)
        existing_alert == CHOOSE a \in found : TRUE
        fail(detail) == AnswerOnly(Respond(req, NoUser, 500, detail, NoToken))
    IN  IF alert_id = 0 THEN fail("Error updating job alert: InvalidId")
        ELSE IF found = {} THEN fail("Error updating job alert: 404: Job alert not found")
        ELSE /\ job_alerts' = (job_alerts \ {existing_alert}) \cup
                    {set_fields(existing_alert, set_fields(alert_update, [updated_at |-> now]))}
             /\ last' = Respond(req, NoUser, 200, "", NoToken)
             /\ UNCHANGED <<users, jobs, tokens, now, nextUserId, nextJobId, appVars,
                            companies, verifications, saved_jobs, profiles, reviews, nextDocId,
                            profile_data, completion, listing>>

----------------------------------------------------------------------------
(* The requests of the model. *)

Registration(email, password, mobile, role) ==
    [email |-> email, password |-> password, mobile |-> mobile, role |-> role]

ValidRegistrations(emails, roles) ==
    {Registration(email, "Passw0rd!", "9876543210", role) : email \in emails, role \in roles}

\* One registration failing each validation.
InvalidRegistrations ==
    {Registration("bad@x", "Passw0rd!", "9876543210", "job_seeker"),
     Registration("a@x.io", "weak", "9876543210", "job_seeker"),
     Registration("a@x.io", "Passw0rd!", "", "job_seeker")}

\* The registrations the specifications draw from: a job seeker a@x.io,
\* an employer b@x.io, and the variations of role each one needs.
SeekerRegistrations == ValidRegistrations({"a@x.io"}, {"job_seeker"})
EmployerRegistrations == ValidRegistrations({"b@x.io"}, {"employer"})
AnyRoleRegistrations == ValidRegistrations({"a@x.io", AdminEmail}, {"job_seeker", "admin"})
PosterRegistrations ==
    ValidRegistrations({"a@x.io"}, {"employer"}) \cup ValidRegistrations({"b@x.io"}, Roles)
StaffRegistrations == ValidRegistrations({"a@x.io"}, {"employer", "admin"})
SelfAdminRegistrations == ValidRegistrations({"a@x.io"}, {"admin", "job_seeker"})

\* The identifiers a request may name: those the store has issued so far,
\* and 0, which stands for a string that is no ObjectId.
IssuedUserIds == 0..(nextUserId - 1)
IssuedJobIds == 0..(nextJobId - 1)
IssuedDocIds == 0..(nextDocId - 1)
IssuedAppIds == 0..(nextAppId - 1)

----------------------------------------------------------------------------
(* Spec: registration, login, and the two admin operations that write    *)
(* the users collection.                                                  *)

Register ==
    \E user \in AnyRoleRegistrations \cup InvalidRegistrations : register(user)

Login ==
    \E email \in {"a@x.io", AdminEmail, ""}, password \in {"Passw0rd!", AdminPassword} :
        login(email, password)

UpdateUserStatus ==
    \E token \in tokens, user_id \in IssuedUserIds, is_active \in BOOLEAN :
        update_user_status(token, user_id, is_active)

DeleteUser == \E token \in tokens, user_id \in IssuedUserIds : delete_user(token, user_id)

Next ==
    \/ Register
    \/ Login
    \/ UpdateUserStatus
    \/ DeleteUser

Spec == Init /\ [][Next]_vars

----------------------------------------------------------------------------
(* SpecToken: tokens issued at different times, presented as the clock   *)
(* advances and as an admin deletes users.                                *)

TokenRegister == \E user \in SeekerRegistrations : register(user)

TokenLogin ==
    \E email \in {"a@x.io", AdminEmail}, password \in {"Passw0rd!", AdminPassword} :
        login(email, password)

TokenDeleteUser == \E token \in tokens, user_id \in IssuedUserIds : delete_user(token, user_id)

GetMyJobs == \E token \in tokens : get_my_jobs(token)

NextToken ==
    \/ TokenRegister
    \/ TokenLogin
    \/ Tick
    \/ TokenDeleteUser
    \/ GetMyJobs

SpecToken == Init /\ [][NextToken]_vars

----------------------------------------------------------------------------
(* SpecJobs: employers, admins and job seekers registering and working on *)
(* the job postings.                                                      *)

JobsRegister ==
    \E user \in PosterRegistrations : register(user)

CreateJob == \E token \in tokens, job \in JobPayloads : create_job(token, job)

UpdateJob ==
    \E token \in tokens, job_id \in IssuedJobIds, job_update \in JobPayloads :
        update_job(token, job_id, job_update)

DeleteJob == \E token \in tokens, job_id \in IssuedJobIds : delete_job(token, job_id)

JobsUpdateJobStatus ==
    \E token \in tokens, job_id \in IssuedJobIds, is_active \in BOOLEAN :
        update_job_status(token, job_id, is_active)

NextJobs ==
    \/ JobsRegister
    \/ CreateJob
    \/ UpdateJob
    \/ DeleteJob
    \/ JobsUpdateJobStatus

SpecJobs == Init /\ [][NextJobs]_vars

----------------------------------------------------------------------------
(* SpecAdmin: every operation of the admin router, called by admins and  *)
(* by others.                                                             *)

AdminRegister ==
    \E user \in StaffRegistrations : register(user)

AdminLogin == login(AdminEmail, AdminPassword)

\* One posting is enough for the admin operations on jobs to have a target.
AdminCreateJob ==
    /\ jobs = {}
    /\ \E token \in tokens : create_job(token, CHOOSE job \in JobPayloads : TRUE)

GetAllUsers == \E token \in tokens : get_all_users(token)
GetUserById == \E token \in tokens, user_id \in IssuedUserIds : get_user_by_id(token, user_id)
AdminUpdateUserStatus ==
    \E token \in tokens, user_id \in IssuedUserIds, is_active \in BOOLEAN :
        update_user_status(token, user_id, is_active)
AdminDeleteUser == \E token \in tokens, user_id \in IssuedUserIds : delete_user(token, user_id)
GetAllJobs == \E token \in tokens : get_all_jobs(token)
GetAllCompanies == \E token \in tokens : get_all_companies(token)
UpdateJobStatus ==
    \E token \in tokens, job_id \in IssuedJobIds, is_active \in BOOLEAN :
        update_job_status(token, job_id, is_active)

NextAdmin ==
    \/ AdminRegister
    \/ AdminLogin
    \/ AdminCreateJob
    \/ GetAllUsers
    \/ GetUserById
    \/ AdminUpdateUserStatus
    \/ AdminDeleteUser
    \/ GetAllJobs
    \/ GetAllCompanies
    \/ UpdateJobStatus

SpecAdmin == Init /\ [][NextAdmin]_vars

----------------------------------------------------------------------------
(* SpecApply: job seekers submitting applications through both routes,   *)
(* their requests interleaved.                                            *)

ApplyRegister ==
    \E user \in SeekerRegistrations \cup EmployerRegistrations : register(user)

\* One posting is enough for two submissions to meet on it.
ApplyCreateJob ==
    /\ jobs = {}
    /\ \E token \in tokens : create_job(token, CHOOSE job \in JobPayloads : TRUE)

\* The slot a new submission takes: slots are interchangeable, so the
\* lowest free one.
FreeSlot == {s \in FreeSlots : \A t \in FreeSlots : s <= t}

CreateApplicationCheck ==
    \E s \in FreeSlot, token \in tokens, job_id \in IssuedJobIds :
        create_application_check(s, token, [job_id |-> job_id, status |-> "applied"])

ApplyForJobCheck ==
    \E s \in FreeSlot, token \in tokens, job_id \in IssuedJobIds :
        apply_for_job_check(s, token, job_id)

SubmitInsert == \E s \in 1..MaxInflight : submit_insert(s)

NextApply ==
    \/ ApplyRegister
    \/ ApplyCreateJob
    \/ CreateApplicationCheck
    \/ ApplyForJobCheck
    \/ SubmitInsert

SpecApply == Init /\ [][NextApply]_vars

----------------------------------------------------------------------------
(* SpecVerification: an employer's company and its verification request, *)
(* created and updated by callers who name themselves, or nobody, in the  *)
(* request.                                                               *)

VerificationRegister ==
    \E user \in EmployerRegistrations : register(user)

\* One company is enough for a verification request to refer to.  The
\* owner_id of the request is the caller's id or another user's.
VerificationCreateCompany ==
    /\ companies = {}
    /\ \E token \in tokens, owner_id \in IssuedUserIds \ {0} :
            create_company(token, [name |-> "Acme", website |-> "acme.io", owner_id |-> owner_id])

CreateCompanyVerification ==
    \E company_id \in IssuedDocIds, owner_id \in IssuedUserIds \ {0},
       verification_status \in {"pending", "approved"} :
        create_company_verification(
            [company_id |-> company_id, owner_id |-> owner_id,
             verification_documents |-> "gst.pdf",
             verification_status |-> verification_status,
             verification_notes |-> ""])

VerificationUpdates ==
    {[verification_status |-> "approved"], [verification_status |-> "rejected"],
     [verification_notes |-> "resubmitted"]}

UpdateCompanyVerification ==
    \E verification_id \in IssuedDocIds, verification_update \in VerificationUpdates,
       current_user_id \in IssuedUserIds :
        update_company_verification(verification_id, verification_update, current_user_id)

NextVerification ==
    \/ VerificationRegister
    \/ VerificationCreateCompany
    \/ CreateCompanyVerification
    \/ UpdateCompanyVerification

SpecVerification == Init /\ [][NextVerification]_vars

----------------------------------------------------------------------------
(* SpecOwnership: an employer's job, company and application, worked on  *)
(* by the employer and by an admin.                                       *)

OwnershipRegister ==
    \E user \in EmployerRegistrations : register(user)

OwnershipLogin == login(AdminEmail, AdminPassword)

OwnershipCreateJob ==
    /\ jobs = {}
    /\ nextJobId = 1
    /\ \E token \in tokens : create_job(token, CHOOSE job \in JobPayloads : TRUE)

OwnershipCreateCompany ==
    /\ companies = {}
    /\ \E token \in tokens :
            create_company(token, [name |-> "Acme", website |-> "acme.io",
                                   owner_id |-> get_current_user(token).id])

\* A submission names the status it wants stored: ApplicationCreate has the
\* field.  One application is enough for the operations on it to have a
\* target.
OwnershipCreateApplication ==
    /\ nextAppId = 1
    /\ \A s \in 1..MaxInflight : inflight[s] = Idle
    /\ \E token \in tokens, job_id \in IssuedJobIds \ {0}, status \in {"applied", "offered"} :
            create_application_check(1, token, [job_id |-> job_id, status |-> status])

ApplicationUpdates == {[status |-> "applied"], [status |-> "reviewed"], [status |-> "accepted"]}

OwnershipUpdateJob ==
    \E token \in tokens, job_id \in IssuedJobIds :
        update_job(token, job_id, CHOOSE job \in JobPayloads : job.title = "Backend Engineer")

CompanyUpdate == [name |-> "Acme", website |-> "acme.com"]

OwnershipUpdateCompany ==
    \E token \in tokens, company_id \in IssuedDocIds :
        update_company(token, company_id, CompanyUpdate)

GetJobApplications ==
    \E token \in tokens, job_id \in IssuedJobIds : get_job_applications(token, job_id)

GetApplication ==
    \E token \in tokens, application_id \in IssuedAppIds : get_application(token, application_id)

UpdateApplication ==
    \E token \in tokens, application_id \in IssuedAppIds, application_update \in ApplicationUpdates :
        update_application(token, application_id, application_update)

DeleteApplication ==
    \E token \in tokens, application_id \in IssuedAppIds : delete_application(token, application_id)

NextOwnership ==
    \/ OwnershipRegister
    \/ OwnershipLogin
    \/ OwnershipCreateJob
    \/ OwnershipCreateCompany
    \/ OwnershipCreateApplication
    \/ SubmitInsert
    \/ OwnershipUpdateJob
    \/ DeleteJob
    \/ OwnershipUpdateCompany
    \/ GetJobApplications
    \/ GetApplication
    \/ UpdateApplication
    \/ DeleteApplication

SpecOwnership == Init /\ [][NextOwnership]_vars

----------------------------------------------------------------------------
(* SpecCompletion: calculate_profile_completion applied to a profile as  *)
(* its fields are filled in and its sections grow, the way                *)
(* update_user_profile applies it to the stored profile merged with each  *)
(* request.                                                               *)

ExperienceEntries == {[title |-> "Engineer", company |-> "Acme"], [title |-> "", company |-> "Acme"]}
EducationEntries == {[school |-> "IIT", degree |-> "BTech"], [school |-> "IIT", degree |-> ""]}
ProjectEntries == {[title |-> "Portal", description |-> "A job portal"],
                   [title |-> "Portal", description |-> ""]}

\* The skill lists a request carries: one skill, as many as earn the most
\* the section gives, and one more.
SkillLists ==
    {[i \in 1..n |-> "skill"] :
        n \in {1, SKILLS_PER_POINT * SKILLS_MAX_POINTS, SKILLS_PER_POINT * SKILLS_MAX_POINTS + 1}}

InitCompletion ==
    /\ InitStore
    /\ \E fullName \in {"", " ", "Asha"}, email \in {"", "a@x.io"} :
            profile_data = [EmptyProfile EXCEPT !.fullName = fullName, !.email = email]
    /\ completion = calculate_profile_completion(profile_data)

\* The profile becomes merged and its score is computed again.
recalculate(merged_profile) ==
    /\ profile_data' = merged_profile
    /\ completion' = calculate_profile_completion(merged_profile)
    /\ UNCHANGED <<users, jobs, tokens, now, nextUserId, nextJobId, appVars, last,
                   companies, verifications, saved_jobs, profiles, reviews, nextDocId,
                   job_alerts, listing>>

FillField ==
    \E field \in optional_fields :
        /\ ~field_filled(profile_data[field])
        /\ recalculate([profile_data EXCEPT ![field] = "x"])

AddSkills ==
    \E skills \in SkillLists :
        /\ Len(skills) > Len(profile_data.skills)
        /\ recalculate([profile_data EXCEPT !.skills = skills])

AddExperience ==
    \E exp \in ExperienceEntries :
        /\ Len(profile_data.experience) < MaxEntries
        /\ recalculate([profile_data EXCEPT !.experience = Append(@, exp)])

AddEducation ==
    \E edu \in EducationEntries :
        /\ Len(profile_data.education) < MaxEntries
        /\ recalculate([profile_data EXCEPT !.education = Append(@, edu)])

AddProject ==
    \E proj \in ProjectEntries :
        /\ Len(profile_data.projects) < MaxEntries
        /\ recalculate([profile_data EXCEPT !.projects = Append(@, proj)])

NextCompletion ==
    \/ FillField
    \/ AddSkills
    \/ AddExperience
    \/ AddEducation
    \/ AddProject

SpecCompletion == InitCompletion /\ [][NextCompletion]_vars

----------------------------------------------------------------------------
(* SpecSaved: a job seeker saving a posting through both routes, the     *)
(* requests interleaved.                                                  *)

SavedRegister ==
    \E user \in SeekerRegistrations \cup EmployerRegistrations : register(user)

\* One posting is enough for two saves to meet on it.
SavedCreateJob ==
    /\ jobs = {}
    /\ \E token \in tokens : create_job(token, CHOOSE job \in JobPayloads : TRUE)

SaveJobCheck ==
    \E s \in FreeSlot, token \in tokens, job_id \in IssuedJobIds :
        save_job_check(s, "save_job", token, job_id)

JobseekerSaveJobCheck ==
    \E s \in FreeSlot, token \in tokens, job_id \in IssuedJobIds :
        save_job_check(s, "jobseeker_save_job", token, job_id)

SaveJobInsert == \E s \in 1..MaxInflight : save_job_insert(s)

NextSaved ==
    \/ SavedRegister
    \/ SavedCreateJob
    \/ SaveJobCheck
    \/ JobseekerSaveJobCheck
    \/ SaveJobInsert

SpecSaved == Init /\ [][NextSaved]_vars

----------------------------------------------------------------------------
(* SpecProfiles: two users creating and updating profiles, the requests  *)
(* interleaved.                                                           *)

\* One user is enough for two requests to meet on their profile; the
\* other user ids a request can name are the administrator's and 0.
ProfilesRegister ==
    \E user \in SeekerRegistrations : register(user)

\* The dump of a ProfileCreate: every field of the model.
CreateProfilePayloads(user_id) ==
    {set_fields(EmptyProfile, [user_id |-> user_id, fullName |-> "Asha", email |-> "a@x.io"])}

\* The fields a ProfileUpdate request set: the two the model requires,
\* and a headline or not.
UpdateProfilePayloads ==
    {[fullName |-> "Asha Rao", email |-> "a@x.io"],
     [fullName |-> "Asha Rao", email |-> "a@x.io", headline |-> "Engineer"]}

CreateProfileCheck ==
    \E s \in FreeSlot, token \in tokens, user_id \in IssuedUserIds :
        \E profile \in CreateProfilePayloads(user_id) : create_profile_check(s, token, profile)

UpdateUserProfile ==
    \E s \in FreeSlot, token \in tokens, user_id \in IssuedUserIds,
       profile \in UpdateProfilePayloads :
        update_user_profile(s, token, user_id, profile)

ProfileInsert == \E s \in 1..MaxInflight : profile_insert(s)

NextProfiles ==
    \/ ProfilesRegister
    \/ CreateProfileCheck
    \/ UpdateUserProfile
    \/ ProfileInsert

SpecProfiles == Init /\ [][NextProfiles]_vars

----------------------------------------------------------------------------
(* SpecReviews: reviews of one company created and updated by requests   *)
(* that name the reviewing user, the creations interleaved.              *)

\* The employer who creates the company is also a user a review can name.
ReviewsRegister ==
    \E user \in EmployerRegistrations : register(user)

\* One company is enough for two reviews to meet on it.
ReviewsCreateCompany ==
    /\ companies = {}
    /\ \E token \in tokens :
            create_company(token, [name |-> "Acme", website |-> "acme.io",
                                   owner_id |-> get_current_user(token).id])

\* The ratings of a ReviewCreate, which are integers: all in range, one
\* above the range, one below it.
RatingVectors ==
    {[rating_work_culture |-> {4}, rating_salary |-> {3}, rating_hr |-> {5}, rating_management |-> {1}],
     [rating_work_culture |-> {4}, rating_salary |-> {6}, rating_hr |-> {5}, rating_management |-> {1}],
     [rating_work_culture |-> {4}, rating_salary |-> {3}, rating_hr |-> {0}, rating_management |-> {1}]}

CreateReviewCheck ==
    \E s \in FreeSlot, company_id \in IssuedDocIds, user_id \in IssuedUserIds,
       ratings \in RatingVectors :
        create_review_check(s, [company_id |-> company_id, user_id |-> user_id,
                                pros |-> "Good team", cons |-> "Long hours"] @@ ratings)

ReviewInsert == \E s \in 1..MaxInflight : review_insert(s)

\* The fields a ReviewUpdate request set: a rating in range, a rating out
\* of range, or a rating set to null.
ReviewUpdates ==
    {[rating_salary |-> {5}], [rating_hr |-> {9}], [rating_salary |-> {}]}

UpdateReview ==
    \E review_id \in IssuedDocIds, review_update \in ReviewUpdates :
        update_review(review_id, review_update)

NextReviews ==
    \/ ReviewsRegister
    \/ ReviewsCreateCompany
    \/ CreateReviewCheck
    \/ ReviewInsert
    \/ UpdateReview

SpecReviews == Init /\ [][NextReviews]_vars

----------------------------------------------------------------------------
(* SpecScore: a user creating their profile and updating it through      *)
(* every route that writes a profile.                                     *)

ScoreRegister ==
    \E user \in SeekerRegistrations : register(user)

ScoreCreateProfile ==
    \E s \in FreeSlot, token \in tokens, user_id \in IssuedUserIds :
        \E profile \in CreateProfilePayloads(user_id) : create_profile_check(s, token, profile)

ScoreUpdateUserProfile ==
    \E s \in FreeSlot, token \in tokens, user_id \in IssuedUserIds,
       profile \in UpdateProfilePayloads :
        update_user_profile(s, token, user_id, profile)

ScoreProfileInsert == \E s \in 1..MaxInflight : profile_insert(s)

UpdateProfile ==
    \E token \in tokens, profile_id \in IssuedDocIds, profile \in UpdateProfilePayloads :
        update_profile(token, profile_id, profile)

UploadProfilePicture ==
    \E token \in tokens, content_type \in {"image/png", "application/pdf"} :
        upload_profile_picture(token, content_type, "png")

NextScore ==
    \/ ScoreRegister
    \/ ScoreCreateProfile
    \/ ScoreUpdateUserProfile
    \/ ScoreProfileInsert
    \/ UpdateProfile
    \/ UploadProfilePicture

SpecScore == Init /\ [][NextScore]_vars

----------------------------------------------------------------------------
(* SpecViews: one profile and the requests that count a view of it,      *)
(* interleaved.                                                           *)

\* The owner of the profile and a recruiter who views it.
ViewsRegister ==
    \E user \in SeekerRegistrations \cup EmployerRegistrations : register(user)

\* One profile, created by the first update of it.
ViewedProfile == [fullName |-> "Asha Rao", email |-> "a@x.io"]

ViewsCreateProfile ==
    /\ profiles = {}
    /\ \A s \in 1..MaxInflight : inflight[s] = Idle
    /\ \E token \in tokens, user_id \in IssuedUserIds :
            update_user_profile(1, token, user_id, ViewedProfile)

ViewsProfileInsert == \E s \in 1..MaxInflight : profile_insert(s)

IncrementProfileViewRead ==
    /\ \A d \in profiles : profile_views_of(d) < MaxViews
    /\ \E s \in FreeSlot, token \in tokens, user_id \in IssuedUserIds :
            increment_profile_view_read(s, token, user_id)

IncrementProfileViewWrite == \E s \in 1..MaxInflight : increment_profile_view_write(s)

NextViews ==
    \/ ViewsRegister
    \/ ViewsCreateProfile
    \/ ViewsProfileInsert
    \/ IncrementProfileViewRead
    \/ IncrementProfileViewWrite

SpecViews == Init /\ [][NextViews]_vars

----------------------------------------------------------------------------
(* SpecAlerts: a store holding the sample jobs and jobs an employer      *)
(* posts, alerts on them, and the matcher and the search run over days.   *)

\* The script runs before the server takes its first request.
InitSampleData == last.op = "startup" /\ init_sample_data

AlertsRegister ==
    \E user \in EmployerRegistrations : register(user)

AlertSkills == {"Python", "SQL"}

PostedJob == [title |-> "Data Analyst", location |-> "Hyderabad",
              skills |-> AlertSkills, salary_min |-> 20]

AlertsCreateJob ==
    /\ \A j \in jobs : "posted_date" \notin DOMAIN j
    /\ \E token \in tokens : create_job(token, PostedJob)

\* The search parameters of the alerts: two skills, and two skills in a
\* place named in lower case.
AlertSearchParams ==
    {[skills |-> {"Python", "SQL"}],
     [skills |-> {"Python", "SQL"}, location |-> "hyderabad", search |-> "Data"]}

\* The users an alert request names: the sample job seeker and no user.
AlertUserIds == {SampleId(1), 0}

\* One alert is enough for the matcher to run on.
CreateJobAlert ==
    /\ job_alerts = {}
    /\ \E user_id \in AlertUserIds, search_params \in AlertSearchParams :
            create_job_alert([user_id |-> user_id, search_params |-> search_params,
                              title |-> "Python and SQL", is_active |-> TRUE,
                              frequency |-> "daily"])

UpdateJobAlert ==
    \E alert_id \in IssuedDocIds :
        update_job_alert(alert_id, [is_active |-> FALSE])

GetRecentJobsForAlerts ==
    \E user_id \in AlertUserIds \ {0} : get_recent_jobs_for_alerts(user_id)

SearchJobs == search_jobs("", "", 0, AlertSkills)

\* The clock advancing by more than half the window of an alert.
TickDays ==
    /\ now + (ALERT_WINDOW_DAYS \div 2 + 1) * MINUTES_PER_DAY <= MaxDays * MINUTES_PER_DAY
    /\ now' = now + (ALERT_WINDOW_DAYS \div 2 + 1) * MINUTES_PER_DAY
    /\ UNCHANGED <<users, jobs, tokens, nextUserId, nextJobId, appVars, extVars, last>>

NextAlerts ==
    \/ InitSampleData
    \/ AlertsRegister
    \/ AlertsCreateJob
    \/ CreateJobAlert
    \/ UpdateJobAlert
    \/ GetRecentJobsForAlerts
    \/ SearchJobs
    \/ TickDays

SpecAlerts == Init /\ [][NextAlerts]_vars

----------------------------------------------------------------------------
(* SpecSession: one account registered, deactivated, deleted and          *)
(* registered again while the clock advances and its tokens are           *)
(* presented.  register accepts the role admin, so the account can        *)
(* administer itself.                                                      *)

SessionRegister ==
    \E user \in SelfAdminRegistrations : register(user)

SessionLogin == login("a@x.io", "Passw0rd!")

SessionUpdateUserStatus ==
    \E token \in tokens, user_id \in IssuedUserIds \ {0}, is_active \in BOOLEAN :
        update_user_status(token, user_id, is_active)

SessionDeleteUser ==
    \E token \in tokens, user_id \in IssuedUserIds \ {0} : delete_user(token, user_id)

SessionGetMyJobs == \E token \in tokens : get_my_jobs(token)

NextSession ==
    \/ SessionRegister
    \/ SessionLogin
    \/ Tick
    \/ SessionUpdateUserStatus
    \/ SessionDeleteUser
    \/ SessionGetMyJobs

SpecSession == Init /\ [][NextSession]_vars

----------------------------------------------------------------------------
(* SpecIntegrity: a posting applied to and saved, then the posting and    *)
(* the users deleted.                                                      *)

IntegrityRegister ==
    \E user \in SelfAdminRegistrations \cup EmployerRegistrations : register(user)

IntegrityCreateJob ==
    /\ jobs = {}
    /\ nextJobId = 1
    /\ \E token \in tokens : create_job(token, CHOOSE job \in JobPayloads : TRUE)

IntegrityCreateApplication ==
    /\ applications = {}
    /\ \A s \in 1..MaxInflight : inflight[s] = Idle
    /\ \E token \in tokens, job_id \in IssuedJobIds \ {0} :
            create_application_check(1, token, [job_id |-> job_id, status |-> "applied"])

IntegritySubmitInsert ==
    \E s \in 1..MaxInflight :
        /\ inflight[s] # Idle
        /\ inflight[s].op = "create_application"
        /\ submit_insert(s)

IntegritySaveJobCheck ==
    /\ saved_jobs = {}
    /\ \A s \in 1..MaxInflight : inflight[s] = Idle
    /\ \E token \in tokens, job_id \in IssuedJobIds \ {0} :
            save_job_check(1, "save_job", token, job_id)

IntegrityDeleteJob ==
    \E token \in tokens, job_id \in IssuedJobIds \ {0} : delete_job(token, job_id)

IntegrityDeleteUser ==
    \E token \in tokens, user_id \in IssuedUserIds \ {0} : delete_user(token, user_id)

NextIntegrity ==
    \/ IntegrityRegister
    \/ IntegrityCreateJob
    \/ IntegrityCreateApplication
    \/ IntegritySubmitInsert
    \/ IntegritySaveJobCheck
    \/ SaveJobInsert
    \/ IntegrityDeleteJob
    \/ IntegrityDeleteUser

SpecIntegrity == Init /\ [][NextIntegrity]_vars

----------------------------------------------------------------------------
(* Properties. *)

\* C1: e-mail is globally unique.  No two user documents share an e-mail; a
\* valid register request for an e-mail a stored user holds is answered
\* 400 "Email already exists" and inserts nothing; one for a free e-mail
\* succeeds and inserts exactly the one document of that e-mail.
C1_EmailUnique ==
    [][/\ \A u, v \in users' : u.email = v.email => u = v
       /\ (last'.op = "register" /\ register_rejects(last'.body) = "") =>
            IF FindByEmail(users, last'.body.email) # {}
            THEN /\ last'.status = 400
                 /\ last'.detail = "Email already exists"
                 /\ last'.issued = NoToken
                 /\ users' = users
            ELSE /\ last'.status = 200
                 /\ Cardinality(FindByEmail(users', last'.body.email)) = 1
                 /\ users \subseteq users'
                 /\ Cardinality(users') = Cardinality(users) + 1]_vars

\* C1 witness: a second valid registration of a@x.io was refused as a
\* conflict while the first one's document is stored.
C1_Witness ==
    /\ last.op = "register"
    /\ last.body.email = "a@x.io"
    /\ last.detail = "Email already exists"
    /\ \E u \in users : u.email = "a@x.io" /\ u.id > 1

\* C2: for every user and job, at most one application document of that
\* user for that job is stored, whichever of create_application and
\* apply_for_job the submissions came through and however they interleave.
C2_OneApplicationPerPair ==
    \A a, b \in applications :
        (a.user_id = b.user_id /\ a.job_id = b.job_id) => a = b

PlainTextFields == {"email", "password", "mobile", "role"}

\* C3: every stored user document holds the hash of its password, and no
\* field of it is the plaintext password.
C3_NoPlaintextStored ==
    \A u \in users : \A p \in Passwords :
        verify_password(p, u.hashed_password) =>
            \A f \in PlainTextFields \cap DOMAIN u : u[f] # p

\* C4: a login for an account that is deactivated is answered 401, carries
\* no token and signs none, whatever the password.
C4_DeactivatedLoginFails ==
    [][(/\ last'.op = "login"
        /\ \E u \in users : u.email = last'.body.email /\ ~u.is_active)
       => /\ last'.status = 401
          /\ last'.issued = NoToken
          /\ tokens' = tokens]_vars

\* C4 witness: an admin deactivated a@x.io through update_user_status and a
\* login with its correct password was then refused.
C4_Witness ==
    /\ last.op = "login"
    /\ last.status = 401
    /\ \E u \in users :
        /\ u.email = last.body.email
        /\ u.id > 1
        /\ ~u.is_active
        /\ verify_password(last.body.password, u.hashed_password)

\* C5 as stated: a token verifies at every moment before its expiry,
\* whatever ran in between, and fails at every moment after.
C5_VerifiesUntilExpiry ==
    last.op = "get_my_jobs" =>
        /\ last.at < last.body.token.exp => last.status = 200
        /\ last.at > last.body.token.exp => last.status # 200

\* C5 amended: login signs a token that expires ACCESS_TOKEN_EXPIRE_MINUTES
\* later; a token verifies, as the user of its e-mail, at every moment
\* before its expiry at which a user document of that e-mail is stored; it
\* fails at every moment after its expiry, and while no such document is
\* stored.
C5_VerifiesWhileUserExists ==
    /\ (last.op = "login" /\ last.status = 200) =>
            /\ last.issued \in tokens
            /\ last.issued.sub = last.body.email
            /\ last.issued.exp = last.at + ACCESS_TOKEN_EXPIRE_MINUTES
    /\ last.op = "get_my_jobs" =>
        LET t == last.body.token
        IN  /\ (last.at < t.exp /\ FindByEmail(users, t.sub) # {}) =>
                    /\ last.status = 200
                    /\ last.caller.email = t.sub
            /\ last.at > t.exp => last.status = 500
            /\ FindByEmail(users, t.sub) = {} => last.status = 500

\* C5 witness: an expired token was refused after a user was deleted, while
\* a later token of a stored user is still good.
C5_Witness ==
    /\ last.op = "get_my_jobs"
    /\ last.at > last.body.token.exp
    /\ last.status = 500
    /\ Cardinality(users) < nextUserId - 1
    /\ \E t \in tokens : now < t.exp /\ get_current_user(t) # NoUser

\* The caller of the request handled last is neither the owner of the
\* job it names nor an admin.
NotOwnerNorAdmin(response, coll) ==
    /\ response.caller # NoUser
    /\ response.caller.role # "admin"
    /\ \E j \in coll : j.id = response.target /\ j.created_by # response.caller.id

\* C6: an update_job or delete_job by an identity that is neither the
\* job's owner nor an admin leaves the jobs collection as it was.
C6_OnlyOwnerOrAdminChangesJob ==
    [][(last'.op \in {"update_job", "delete_job"} /\ NotOwnerNorAdmin(last', jobs))
       => jobs' = jobs]_vars

\* C6 witness: an employer called delete_job on another employer's job,
\* which is still stored.
C6_Witness ==
    /\ last.op = "delete_job"
    /\ last.caller.role = "employer"
    /\ NotOwnerNorAdmin(last, jobs)

\* C7: an employer who is neither the owner nor an admin, calling
\* update_job or delete_job on an existing job, is answered 403.
C7_NonOwnerGetsForbidden ==
    (/\ last.op \in {"update_job", "delete_job"}
     /\ last.caller.role = "employer"
     /\ NotOwnerNorAdmin(last, jobs))
    => last.status = 403

\* C8: a successful update_job gives the submitted fields the submitted
\* values and updated_at the time of the request, and leaves every other
\* field of the job, every other job and the job's identity as they were.
C8_UpdateChangesOnlySubmitted ==
    [][(last'.op = "update_job" /\ last'.status = 200) =>
        \E old \in jobs, new \in jobs' :
            /\ old.id = last'.target
            /\ new.id = last'.target
            /\ jobs' \ {new} = jobs \ {old}
            /\ DOMAIN new = DOMAIN old
            /\ \A f \in DOMAIN old :
                IF f \in DOMAIN last'.body THEN new[f] = last'.body[f]
                ELSE IF f = "updated_at" THEN new[f] = last'.at
                ELSE new[f] = old[f]]_vars

\* C8 witness: the owner updated a job that an admin had deactivated, and
\* a submitted field changed.
C8_Witness ==
    /\ last.op = "update_job"
    /\ last.status = 200
    /\ \E j \in jobs :
        /\ j.id = last.target
        /\ j.created_by = last.caller.id
        /\ ~j.is_active
        /\ j.title = last.body.title
    /\ \E j \in jobs : j.id # last.target /\ j.title # last.body.title

\* C9: create_job inserts a job only for an identity of role employer, as
\* that identity's job; an identity of another role is answered 403 and
\* the jobs collection stays as it was.
C9_OnlyEmployerCreatesJob ==
    [][last'.op = "create_job" =>
        /\ (last'.caller # NoUser /\ last'.caller.role # "employer") =>
                last'.status = 403 /\ jobs' = jobs
        /\ jobs' # jobs =>
                /\ last'.status = 200
                /\ last'.caller.role = "employer"
                /\ \E j \in jobs' \ jobs : j.created_by = last'.caller.id
                /\ jobs \subseteq jobs']_vars

\* C9 witness: a job seeker's create_job was answered 403.
C9_Witness ==
    /\ last.op = "create_job"
    /\ last.caller.role = "job_seeker"
    /\ last.status = 403

AdminOps ==
    {"get_all_users", "get_user_by_id", "update_user_status", "delete_user",
     "get_all_jobs", "get_all_companies", "update_job_status"}

\* C10: an admin operation called by a user whose stored role is not admin
\* is answered 403 and changes neither the users nor the jobs; a user
\* document leaves the store only in a delete_user called by a user whose
\* stored role is admin.
C10_AdminOnly ==
    [][/\ (/\ last'.op \in AdminOps
           /\ last'.caller # NoUser
           /\ get_current_user_role(last'.caller.id) # "admin")
          => /\ last'.status = 403
             /\ users' = users
             /\ jobs' = jobs
       /\ (\E u \in users : \A v \in users' : v.id # u.id)
          => /\ last'.op = "delete_user"
             /\ last'.status = 200
             /\ get_current_user_role(last'.caller.id) = "admin"]_vars

\* C10 witness: an employer's delete_user was answered 403 with its target
\* still stored.
C10_Witness ==
    /\ last.op = "delete_user"
    /\ last.status = 403
    /\ get_current_user_role(last.caller.id) = "employer"
    /\ \E u \in users : u.id = last.target

\* C11: the verification_status of a verification request is set or
\* changed only by an admin: a step that stores a request with a status
\* other than pending, or changes the status of a stored one, is an
\* update_company_verification whose caller's stored role is admin.
C11_StatusSetOnlyByAdmin ==
    [][\A v \in verifications' :
        (IF \E w \in verifications : w.id = v.id
         THEN \E w \in verifications :
                w.id = v.id /\ w.verification_status # v.verification_status
         ELSE v.verification_status # "pending")
        => /\ last'.op = "update_company_verification"
           /\ last'.caller # NoUser
           /\ get_current_user_role(last'.caller.id) = "admin"]_vars

OwnershipGatedOps ==
    {"update_job", "delete_job", "update_company", "get_job_applications",
     "get_application", "update_application", "delete_application"}

\* The resource a request names exists and belongs to a user other than
\* the caller.
OwnedByAnother(response) ==
    CASE response.op \in {"update_job", "delete_job", "get_job_applications"} ->
            \E j \in jobs : j.id = response.target /\ j.created_by # response.caller.id
      [] response.op = "update_company" ->
            \E c \in companies : c.id = response.target /\ c.created_by # response.caller.id
      [] response.op \in {"get_application", "update_application", "delete_application"} ->
            \E a \in applications : a.id = response.target /\ a.user_id # response.caller.id
      [] OTHER -> FALSE

\* C12: an identity of role admin passes every ownership gate: each of the
\* seven operations succeeds for an admin on an existing resource that
\* belongs to another user.
C12_AdminPassesOwnershipGates ==
    [][(/\ last'.op \in OwnershipGatedOps
        /\ last'.caller # NoUser
        /\ last'.caller.role = "admin"
        /\ OwnedByAnother(last'))
       => last'.status = 200]_vars

\* C13: the identity get_current_user returns for a token carries the role
\* stored in the user document found by the token's e-mail, the role
\* get_current_user_role returns for that user's id.
C13_IdentityRoleIsStoredRole ==
    \A token \in tokens :
        LET current_user == get_current_user(token)
        IN  current_user # NoUser =>
                current_user.role = get_current_user_role(current_user.id)

\* The stage of a status in the lifecycle applied, reviewed, interview,
\* offered, accepted or rejected.
StageOf(status) ==
    CASE status = "applied" -> 1
      [] status = "reviewed" -> 2
      [] status = "interview" -> 3
      [] status = "offered" -> 4
      [] status \in {"accepted", "rejected"} -> 5
      [] OTHER -> 0

\* C14: an application is created with status applied, and every later
\* change of its status moves it to a later stage, never back and never
\* out of accepted or rejected.
C14_StatusLifecycle ==
    [][\A b \in applications' :
        IF \E a \in applications : a.id = b.id
        THEN \A a \in applications :
                (a.id = b.id /\ a.status # b.status) => StageOf(b.status) > StageOf(a.status)
        ELSE b.status = "applied"]_vars

\* A profile whose scalar fields are all empty or blank and that has no
\* experience, education, skills or project entries.
IsEmptyProfile(profile) ==
    /\ \A f \in required_fields \cup optional_fields : ~field_filled(profile[f])
    /\ Len(profile.experience) = 0
    /\ Len(profile.education) = 0
    /\ Len(profile.skills) = 0
    /\ Len(profile.projects) = 0

\* C19: calculate_profile_completion returns an integer from 0 to 100 for
\* every profile, and exactly 0 for an empty profile without sections.
C19_CompletionInRange ==
    /\ completion = calculate_profile_completion(profile_data)
    /\ completion \in 0..100
    /\ IsEmptyProfile(profile_data) => completion = 0

\* C19 witness: a profile with every field filled, valid entries in every
\* section and more skills than earn points scores 100.
C19_Witness ==
    /\ completion = 100
    /\ Len(profile_data.skills) > SKILLS_PER_POINT * SKILLS_MAX_POINTS
    /\ Len(profile_data.projects) > 0

\* The step fills in more of the profile: an empty optional field gets a
\* value, the skills get longer, or a valid entry joins a section.
FilledInMore(old, new) ==
    \/ \E f \in optional_fields :
            /\ ~field_filled(old[f])
            /\ field_filled(new[f])
            /\ new = [old EXCEPT ![f] = new[f]]
    \/ /\ Len(new.skills) > Len(old.skills)
       /\ new = [old EXCEPT !.skills = new.skills]
    \/ \E e \in ExperienceEntries :
            e.title # "" /\ e.company # "" /\ new = [old EXCEPT !.experience = Append(@, e)]
    \/ \E e \in EducationEntries :
            e.school # "" /\ e.degree # "" /\ new = [old EXCEPT !.education = Append(@, e)]
    \/ \E e \in ProjectEntries :
            e.title # "" /\ e.description # "" /\ new = [old EXCEPT !.projects = Append(@, e)]

\* C20: filling in more of a profile never lowers its completion score.
C20_CompletionMonotone ==
    [][FilledInMore(profile_data, profile_data') => completion' >= completion]_vars

\* C15: for every user and job, at most one saved-job record of that user
\* for that job exists, however the save requests of both routes
\* interleave.
C15_OneSavedJobPerUserAndJob ==
    \A x, y \in saved_jobs : (x.user_id = y.user_id /\ x.job_id = y.job_id) => x = y

\* C16: at most one profile document exists per user id, however
\* create_profile and update_user_profile interleave.
C16_OneProfilePerUser ==
    \A x, y \in profiles : x.user_id = y.user_id => x = y

\* C17: at most one review exists per pair of user id and company id,
\* however the create_review requests interleave.
C17_OneReviewPerUserAndCompany ==
    \A x, y \in reviews : (x.user_id = y.user_id /\ x.company_id = y.company_id) => x = y

\* The ratings a review request would store: those it sets.
RatingsOfRequest(body) == {body[f] : f \in RatingFields \cap DOMAIN body}

\* An integer from 1 to 5.
ValidRating(rating) == \E n \in RATING_MIN..RATING_MAX : rating = {n}

\* C18: every stored review has each of its four ratings an integer from
\* 1 to 5, and a create_review or update_review that would store another
\* rating is rejected and leaves the stored reviews unchanged.
C18_RatingsInRange ==
    [][/\ \A r \in reviews' : \A f \in RatingFields : ValidRating(r[f])
       /\ (/\ last' # last
           /\ last'.op \in {"create_review", "update_review"}
           /\ \E rating \in RatingsOfRequest(last'.body) : ~ValidRating(rating))
          => (reviews' = reviews /\ last'.status # 200)]_vars

\* C21: after every profile create or update the stored
\* profile_completion is calculate_profile_completion of the profile
\* document as it is stored.
C21_StoredCompletionIsComputed ==
    \A d \in profiles : d.profile_completion = completion_of(d)

\* C29: every successful increment_profile_view raises the stored
\* profile_views of the profile by exactly one, however the calls
\* interleave.
C29_EveryViewCounts ==
    [][\A s \in 1..MaxInflight :
        (inflight[s].op = "increment_profile_view" /\ inflight'[s] = Idle)
        => \A d \in profiles :
              d.user_id = inflight[s].user_id
              => \E e \in profiles' :
                    e.id = d.id /\ profile_views_of(e) = profile_views_of(d) + 1]_vars

\* C22: the alert matcher returns only jobs whose skills contain every
\* skill of the alert, whereas the job search given a list of skills
\* returns the active jobs whose skills contain at least one of them.
C22_AlertsAllSearchAny ==
    /\ last.op = "get_recent_jobs_for_alerts"
        => \A e \in listing : \A a \in job_alerts, j \in jobs :
                (a.id = e.matched_alert_id /\ j.id = e.job_id
                    /\ "skills" \in DOMAIN a.search_params)
                => a.search_params.skills \subseteq j.skills
    /\ last.op = "search_jobs"
        => listing = {[job_id |-> j.id, matched_alert_id |-> 0] :
                        j \in {k \in jobs : k.is_active
                                    /\ k.skills \cap last.body.skills # {}}}

\* C22 witness: the matcher answered with a job for an alert on two
\* skills, leaving out a job of the window that has only one of them.
C22_Witness ==
    /\ last.op = "get_recent_jobs_for_alerts"
    /\ listing # {}
    /\ \E j \in jobs, a \in job_alerts :
            /\ a.is_active /\ a.user_id = last.target
            /\ Cardinality(a.search_params.skills) = 2
            /\ "posted_at" \in DOMAIN j /\ j.is_active
            /\ j.skills \cap a.search_params.skills # {}
            /\ ~(a.search_params.skills \subseteq j.skills)
            /\ \A e \in listing : e.job_id # j.id

\* The time a job was posted at, whichever script or handler stored it.
PostedTime(job) == IF "posted_at" \in DOMAIN job THEN job.posted_at ELSE job.posted_date

\* The start of the window of an alert for a run of the matcher at the
\* given time.
WindowStart(alert, at) ==
    IF alert.last_triggered # {} THEN CHOOSE t \in alert.last_triggered : TRUE
    ELSE at - ALERT_WINDOW_DAYS * MINUTES_PER_DAY

\* C23: for every active alert of the user the matcher returns exactly
\* the active jobs that satisfy the search predicates of the alert and
\* were posted in its window, the jobs create_job posted included.
C23_MatcherReturnsWindow ==
    last.op = "get_recent_jobs_for_alerts"
    => listing =
        {[job_id |-> pair[1].id, matched_alert_id |-> pair[2].id] :
            pair \in {q \in jobs \X job_alerts :
                        /\ q[2].user_id = last.target
                        /\ q[2].is_active
                        /\ alert_query_matches(q[1], q[2].search_params)
                        /\ PostedTime(q[1]) >= WindowStart(q[2], last.at)}}

\* A run of the matcher.
MatcherRuns == last'.op = "get_recent_jobs_for_alerts" /\ last' # last

\* The matcher ran for the same user in the request before.
MatcherRunsAgain ==
    /\ MatcherRuns
    /\ last.op = "get_recent_jobs_for_alerts"
    /\ last.target = last'.target

\* C24 as stated: the matcher changes no alert and no job, and a run
\* right after a run for the same user gives the same result.
C24_MatcherIdempotent ==
    [][/\ MatcherRuns => (jobs' = jobs /\ job_alerts' = job_alerts)
       /\ MatcherRunsAgain => listing' = listing]_vars

\* No job was posted between the starts of the windows of the two runs:
\* none has left the window of an alert while the clock advanced.
NoJobLeftWindow ==
    \A j \in jobs, a \in job_alerts :
        ~(PostedTime(j) >= WindowStart(a, last.at) /\ PostedTime(j) < WindowStart(a, last'.at))

\* C24 amended: the matcher changes no alert and no job, and a run right
\* after a run for the same user gives the same result when no job has
\* left the window of an alert in between.
C24_MatcherIdempotentInWindow ==
    [][/\ MatcherRuns => (jobs' = jobs /\ job_alerts' = job_alerts)
       /\ (MatcherRunsAgain /\ NoJobLeftWindow) => listing' = listing]_vars

\* C24 witness: the matcher answered with a job posted days before the
\* run.
C24_Witness ==
    /\ last.op = "get_recent_jobs_for_alerts"
    /\ \E e \in listing : \E j \in jobs : j.id = e.job_id /\ PostedTime(j) < last.at

\* C27: an unexpired token authenticates only as the user record it was
\* issued for: the record get_current_user returns for it was stored
\* when the token was signed.
C27_TokenKeepsItsUser ==
    \A t \in tokens : \A u \in users :
        (get_current_user(t) # NoUser /\ u.id = get_current_user(t).id)
            => u.created_at <= t.exp - ACCESS_TOKEN_EXPIRE_MINUTES

\* C28: a token keeps verifying until its expiry whether or not the
\* account of its user is active, while a login is granted to active
\* accounts only.
C28_DeactivationKeepsSession ==
    /\ \A t \in tokens :
        (now < t.exp /\ FindByEmail(users, t.sub) # {})
            => /\ get_current_user(t) # NoUser
               /\ get_current_user(t).email = t.sub
    /\ (last.op = "login" /\ last.status = 200)
            => \E u \in users : u.email = last.body.email /\ u.is_active

\* C28 witness: a request with the token of a deactivated account was
\* served as that account, after the deactivation and before the expiry.
C28_Witness ==
    /\ last.op = "get_my_jobs"
    /\ last.status = 200
    /\ last.at = now
    /\ \E u \in users : u.id = last.caller.id /\ ~u.is_active
    /\ last.body.token.exp - ACCESS_TOKEN_EXPIRE_MINUTES < now

\* The operations of the model that take a token.
TokenProtectedOps ==
    {"get_my_jobs", "create_job", "update_job", "delete_job", "update_job_status",
     "get_all_users", "get_user_by_id", "update_user_status", "delete_user",
     "get_all_jobs", "get_all_companies"}

\* C25: a token-protected operation called with a token that does not
\* verify (expired, or of a user who no longer exists) answers 401 and
\* changes nothing stored.
C25_BadTokenUnauthenticated ==
    [][(last' # last /\ last'.op \in TokenProtectedOps /\ last'.caller = NoUser)
        => (last'.status = 401 /\ users' = users /\ jobs' = jobs)]_vars

\* C26: a login refused for an unknown email, a wrong password or an
\* inactive account answers the same 401 "Invalid credentials".
C26_LoginFailsGenerically ==
    (last.op = "login" /\ last.status \notin {200, 400})
        => (last.status = 401 /\ last.detail = "Invalid credentials")

\* C30: every stored application names an existing job and an existing
\* user, and every saved job names an existing job.
C30_ReferentialIntegrity ==
    /\ \A a \in applications :
            /\ FindById(jobs, a.job_id) # {}
            /\ FindById(users, a.user_id) # {}
    /\ \A sj \in saved_jobs : FindById(jobs, sj.job_id) # {}

====
